---- MODULE Spec2Model ----
(***************************************************************************)
(* The economy analytics engine of classroom-economy: tenant-scoped        *)
(* balances (app/models.py), the metric calculators, trend comparator,     *)
(* alert generator and snapshot cache (app/utils/analytics_engine.py) and  *)
(* the alert routes (app/routes/analytics.py).                             *)
(*                                                                         *)
(* Units.  Money is counted in mills (a tenth of a cent), so that          *)
(* round(x, 2) is a real operation.  Percentages rounded to one decimal    *)
(* are integers in tenths of a percent, money velocity (two decimals) is   *)
(* an integer in hundredths, unrounded quotients are fractions [n, d].     *)
(* Time is counted in ticks of half a day.                                 *)
(***************************************************************************)
EXTENDS Integers, Sequences, FiniteSets, TLC

VARIABLES
    student_blocks,     \* set of <<student_id, join_code>>: the student_blocks table
    transactions,       \* sequence of Transaction rows, id = index
    tap_events,         \* sequence of TapEvent rows, id = index
    payroll_settings,   \* sequence of PayrollSettings rows in storage order
    snapshots,          \* sequence of AnalyticsSnapshot rows, id = index
    alerts,             \* sequence of AnalyticsAlert rows, id = index
    now,                \* the clock, in ticks
    ret,                \* the last call and what it returned
    pc,                 \* position of each concurrent request
    loc,                \* locals of each concurrent request
    observed            \* what a computation for tenant A produced before the latest step

vars == <<student_blocks, transactions, tap_events, payroll_settings,
          snapshots, alerts, now, ret, pc, loc, observed>>

ledger == <<student_blocks, transactions, tap_events, payroll_settings>>

(***************************************************************************)
(* Bounds of the model.                                                    *)
(***************************************************************************)
NStudents == 2
MaxTx == 2
MaxSnapshots == 3
MaxAlertId == 2
MaxPayroll == 2
MaxTaps == 1
MaxRows == 8

(***************************************************************************)
(* Values.                                                                 *)
(***************************************************************************)
None == 0                       \* a NULL teacher_id (falsy, as in Python)
NULL == "NULL"                  \* a NULL join_code / block
TicksPerDay == 2

Students == 1 .. NStudents
Teachers == {1, 2}
JoinCodes == {"A", "B"}
AccountTypes == {"checking", "savings"}

\* the instants the clock takes: 0 and 7 days
TimePoints == {0, 7 * TicksPerDay}

(***************************************************************************)
(* Arithmetic helpers.                                                     *)
(***************************************************************************)
Abs(x) == IF x < 0 THEN -x ELSE x

RECURSIVE GCD(_, _)
GCD(a, b) == IF b = 0 THEN Abs(a) ELSE GCD(b, a % b)

\* the fraction n/d in lowest terms with a positive denominator (d # 0)
Frac(n, d) ==
    LET g == GCD(Abs(n), Abs(d))
        s == IF d < 0 THEN -1 ELSE 1
    IN  [n |-> s * (n \div g), d |-> s * (d \div g)]

\* n/d rounded to the nearest integer, ties to the even one (d > 0):
\* Python's round() on an exactly represented value
RoundHalfEven(n, d) ==
    LET q == n \div d
        r == n - q * d
    IN  IF 2 * r < d THEN q
        ELSE IF 2 * r > d THEN q + 1
        ELSE IF q % 2 = 0 THEN q ELSE q + 1

\* n/d (d # 0) rounded half-even
RoundQuot(n, d) == IF d < 0 THEN RoundHalfEven(-n, -d) ELSE RoundHalfEven(n, d)

\* round(x, 2) of a money amount x in mills
Round2(x) == 10 * RoundHalfEven(x, 10)


(***************************************************************************)
(* Student balances (app/models.py).                                       *)
(***************************************************************************)
\* Student.transactions: the ids of the student's Transaction rows
StudentTransactions(s) ==
    {i \in DOMAIN transactions : transactions[i].student_id = s}

\* sum(tx.amount for tx in ...) over a set of Transaction ids
RECURSIVE SumAmounts(_)
SumAmounts(S) ==
    IF S = {} THEN 0
    ELSE LET i == CHOOSE j \in S : TRUE
         IN  transactions[i].amount + SumAmounts(S \ {i})

\* the scoping branches shared by get_checking_balance / get_savings_balance
BalanceNoVoidFilter(s, teacher_id, join_code, account_type) ==
    Round2(SumAmounts({i \in StudentTransactions(s) :
        /\ transactions[i].account_type = account_type
        /\ \/ transactions[i].join_code = join_code
           \/ /\ transactions[i].join_code = NULL
              /\ teacher_id # None
              /\ transactions[i].teacher_id = teacher_id}))

BalanceByTeacher(s, teacher_id, join_code, account_type) ==
    Round2(SumAmounts({i \in StudentTransactions(s) :
        /\ transactions[i].account_type = account_type
        /\ ~transactions[i].is_void
        /\ transactions[i].teacher_id = teacher_id}))

Balance(s, teacher_id, join_code, account_type) ==
    IF join_code # NULL
    THEN Round2(SumAmounts({i \in StudentTransactions(s) :
            /\ transactions[i].account_type = account_type
            /\ ~transactions[i].is_void
            /\ \/ transactions[i].join_code = join_code
               \/ /\ transactions[i].join_code = NULL
                  /\ teacher_id # None
                  /\ transactions[i].teacher_id = teacher_id}))
    ELSE IF teacher_id # None
    THEN Round2(SumAmounts({i \in StudentTransactions(s) :
            /\ transactions[i].account_type = account_type
            /\ ~transactions[i].is_void
            /\ transactions[i].teacher_id = teacher_id}))
    ELSE Round2(SumAmounts({i \in StudentTransactions(s) :
            /\ transactions[i].account_type = account_type
            /\ ~transactions[i].is_void}))

get_checking_balance(s, teacher_id, join_code) ==
    Balance(s, teacher_id, join_code, "checking")

get_savings_balance(s, teacher_id, join_code) ==
    Balance(s, teacher_id, join_code, "savings")

(***************************************************************************)
(* AnalyticsEngine(teacher_id, join_code): readers and baseline.           *)
(***************************************************************************)
CWI_DEVIATION_BAND_PCT == 20            \* CWI_DEVIATION_BAND = 0.20
PARTICIPATION_WARNING_PCT == 70         \* PARTICIPATION_WARNING_THRESHOLD * 100
CWI_DEVIATION_WARNING_PCT == 20         \* CWI_DEVIATION_WARNING_THRESHOLD = 0.20
BUDGET_SURVIVAL_WARNING_PCT == 50       \* budget_survival_pass_rate < 50
TREND_THRESHOLD_PCT == 10               \* threshold: float = 0.10
MinutesPerHour == 60

\* the same query without the filter on the join code
EnrolledAnywhere(join_code) ==
    {sb[1] : sb \in student_blocks}

\* Student.query.join(StudentBlock).filter(StudentBlock.join_code == join_code)
_get_enrolled_students(join_code) ==
    {sb[1] : sb \in {x \in student_blocks : x[2] = join_code}}

\* EconomyBalanceChecker.calculate_cwi: pay rate per minute x expected
\* weekly hours x 60
calculate_cwi(row) == row.pay_rate * row.expected_weekly_hours * MinutesPerHour

\* the rows the filter of _get_cwi matches
PayrollCandidates(teacher_id, join_code) ==
    {i \in DOMAIN payroll_settings :
        /\ payroll_settings[i].teacher_id = teacher_id
        /\ \/ payroll_settings[i].block = join_code
           \/ payroll_settings[i].block = NULL}

\* _get_cwi: .first() of an unordered query returns any matching row, so
\* the result is one of these values
CwiChoices(teacher_id, join_code) ==
    IF PayrollCandidates(teacher_id, join_code) = {}
    THEN {0}
    ELSE {calculate_cwi(payroll_settings[i]) :
            i \in PayrollCandidates(teacher_id, join_code)}

\* (window_end - window_start).days: timedelta.days floors
WindowDays(window_start, window_end) == (window_end - window_start) \div TicksPerDay

(***************************************************************************)
(* Metric calculators.                                                     *)
(***************************************************************************)
\* the non-void transactions of the tenant in [window_start, window_end)
WindowTransactionsWithVoid(join_code, window_start, window_end) ==
    {i \in DOMAIN transactions :
        /\ transactions[i].join_code = join_code
        /\ transactions[i].timestamp >= window_start
        /\ transactions[i].timestamp < window_end}

WindowTransactions(join_code, window_start, window_end) ==
    {i \in DOMAIN transactions :
        /\ transactions[i].join_code = join_code
        /\ transactions[i].timestamp >= window_start
        /\ transactions[i].timestamp < window_end
        /\ transactions[i].is_void = FALSE}

\* the presence events of the tenant in [window_start, window_end)
WindowTapEvents(join_code, window_start, window_end) ==
    {i \in DOMAIN tap_events :
        /\ tap_events[i].join_code = join_code
        /\ tap_events[i].timestamp >= window_start
        /\ tap_events[i].timestamp < window_end}

calculate_participation_rate(join_code, window_start, window_end) ==
    LET total_students == Cardinality(_get_enrolled_students(join_code))
        active_student_ids ==
            {transactions[i].student_id :
                i \in WindowTransactions(join_code, window_start, window_end)}
            \cup
            {tap_events[i].student_id :
                i \in WindowTapEvents(join_code, window_start, window_end)}
        active_students == Cardinality(active_student_ids)
    IN  IF total_students = 0
        THEN [rate |-> Frac(0, 1), active |-> 0, total |-> 0]
        ELSE [rate |-> Frac(active_students * 100, total_students),
              active |-> active_students, total |-> total_students]

\* in hundredths (round(velocity, 2))
calculate_money_velocity(join_code, window_start, window_end) ==
    LET total_students == Cardinality(_get_enrolled_students(join_code))
        transaction_count ==
            Cardinality(WindowTransactions(join_code, window_start, window_end))
        d == WindowDays(window_start, window_end)
        days == IF d = 0 THEN 1 ELSE d
    IN  IF total_students = 0 THEN 0
        ELSE RoundQuot(100 * transaction_count, total_students * days)

\* abs(current_balance - expected_balance) / expected_balance of a balance
\* exactly 20% away from the expected one is 0.2 or 0.20000000000000004 in
\* double arithmetic, depending on the operands.  Of the triples
\* <<current_balance, cwi, days>> with a baseline of 3.00, 30.00, 75.00 or
\* 120.00 and a window of up to 14 days, these give the latter.
DeviationAboveBand ==
    {<<3600, 3000, 7>>, <<2400, 3000, 7>>, <<7200, 3000, 14>>,
     <<4800, 3000, 14>>}

\* the loop body of calculate_cwi_deviation_distribution: expected balance
\* is cwi * days / 7
WithinBand(current_balance, cwi, days) ==
    IF cwi * days > 0
    THEN \/ Abs(7 * current_balance - cwi * days) * 100
                < CWI_DEVIATION_BAND_PCT * cwi * days
         \/ /\ Abs(7 * current_balance - cwi * days) * 100
                = CWI_DEVIATION_BAND_PCT * cwi * days
            /\ <<current_balance, cwi, days>> \notin DeviationAboveBand
    ELSE current_balance = 0

\* in tenths of a percent (round(percentage, 1))
calculate_cwi_deviation_distribution(teacher_id, join_code, window_start, window_end, cwi) ==
    LET students == _get_enrolled_students(join_code)
        total_students == Cardinality(students)
        days == WindowDays(window_start, window_end)
        within_band == Cardinality({s \in students :
            WithinBand(get_checking_balance(s, teacher_id, join_code), cwi, days)})
    IN  IF total_students = 0 \/ cwi = 0 THEN 0
        ELSE RoundQuot(1000 * within_band, total_students)

\* in tenths of a percent (round(percentage, 1))
calculate_budget_survival_pass_rate(teacher_id, join_code, cwi) ==
    LET students == _get_enrolled_students(join_code)
        total_students == Cardinality(students)
        passing_students == Cardinality({s \in students :
            get_checking_balance(s, teacher_id, join_code) > 0})
    IN  IF total_students = 0 \/ cwi = 0 THEN 0
        ELSE RoundQuot(1000 * passing_students, total_students)

\* SystemHealthMetrics for one outcome cwi of _get_cwi
compute_system_health(teacher_id, join_code, window_start, window_end, cwi) ==
    LET p == calculate_participation_rate(join_code, window_start, window_end)
    IN  [participation_rate |-> p.rate,
         money_velocity |->
            calculate_money_velocity(join_code, window_start, window_end),
         cwi_deviation_within_20pct |->
            calculate_cwi_deviation_distribution(teacher_id, join_code,
                window_start, window_end, cwi),
         budget_survival_pass_rate |->
            calculate_budget_survival_pass_rate(teacher_id, join_code, cwi),
         cwi_value |-> cwi,
         total_students |-> p.total,
         active_students |-> p.active]

(***************************************************************************)
(* Trend comparator.  A value is a fraction [n, d]; an Optional value is   *)
(* <<>> (None) or <<v>>.                                                   *)
(***************************************************************************)
\* (current_value - previous_value) / previous_value of a change of exactly
\* the threshold is in double arithmetic the threshold or a double next to
\* it.  Of the triples <<current_value, previous_value, threshold_pct>> over
\* TrendValues and TrendThresholds, this one evaluates to
\* 0.09999999999999995, below 0.10; no pair of metric values another
\* specification of this module compares is on the threshold.
ChangeBelowThreshold == {<<Frac(11, 100), Frac(1, 10), 10>>}

calculate_trend(current_value, previous_value, threshold_pct) ==
    IF previous_value = <<>> \/ previous_value[1].n = 0
    THEN "stable"
    ELSE LET c == current_value
             p == previous_value[1]
             \* change = (c - p) / p = num / den
             num == c.n * p.d - p.n * c.d
             den == c.d * p.n
         IN  IF \/ Abs(num) * 100 < threshold_pct * Abs(den)
                \/ /\ Abs(num) * 100 = threshold_pct * Abs(den)
                   /\ <<c, p, threshold_pct>> \in ChangeBelowThreshold
             THEN "stable"
             ELSE IF num * den > 0 THEN "improving"
             ELSE "worsening"

\* previous_snapshot is <<>> (None) or <<row>>; money_velocity is kept in
\* hundredths and cwi_deviation_within_20pct in tenths
compute_trends(current_snapshot, previous_snapshot) ==
    IF previous_snapshot = <<>>
    THEN [balance_trend |-> "stable", velocity_trend |-> "stable",
          participation_trend |-> "stable"]
    ELSE LET prev == previous_snapshot[1]
         IN  [velocity_trend |->
                calculate_trend(Frac(current_snapshot.money_velocity, 100),
                                <<Frac(prev.money_velocity, 100)>>,
                                TREND_THRESHOLD_PCT),
              participation_trend |->
                calculate_trend(current_snapshot.participation_rate,
                                <<prev.participation_rate>>,
                                TREND_THRESHOLD_PCT),
              balance_trend |->
                calculate_trend(Frac(current_snapshot.cwi_deviation_within_20pct, 10),
                                <<Frac(prev.cwi_deviation_within_20pct, 10)>>,
                                TREND_THRESHOLD_PCT)]

(***************************************************************************)
(* Alert generator.                                                        *)
(***************************************************************************)
\* f'{x:.1f}' of a fraction: tenths
Fmt1(v) == RoundQuot(10 * v.n, v.d)

Proposal(alert_type, severity, value) ==
    [alert_type |-> alert_type, severity |-> severity,
     what_changed |-> <<alert_type, value>>,
     why_it_matters |-> alert_type,
     suggested_action |-> alert_type]

\* generate_alerts testing the participation rate with <= instead of <
generate_alerts_inclusive(metrics, trends) ==
    (IF metrics.participation_rate.n
            <= PARTICIPATION_WARNING_PCT * metrics.participation_rate.d
     THEN <<Proposal("participation_low", "warning",
                     Fmt1(metrics.participation_rate))>>
     ELSE <<>>)
    \o
    (IF metrics.cwi_deviation_within_20pct
            < 10 * (100 - CWI_DEVIATION_WARNING_PCT)
     THEN <<Proposal("cwi_deviation", "warning",
                     metrics.cwi_deviation_within_20pct)>>
     ELSE <<>>)
    \o
    (IF trends.velocity_trend = "worsening"
     THEN <<Proposal("velocity_drop", "info", 0)>>
     ELSE <<>>)
    \o
    (IF metrics.budget_survival_pass_rate < 10 * BUDGET_SURVIVAL_WARNING_PCT
     THEN <<Proposal("budget_survival_low", "critical",
                     metrics.budget_survival_pass_rate)>>
     ELSE <<>>)

generate_alerts(metrics, trends) ==
    (IF metrics.participation_rate.n
            < PARTICIPATION_WARNING_PCT * metrics.participation_rate.d
     THEN <<Proposal("participation_low", "warning",
                     Fmt1(metrics.participation_rate))>>
     ELSE <<>>)
    \o
    (IF metrics.cwi_deviation_within_20pct
            < 10 * (100 - CWI_DEVIATION_WARNING_PCT)
     THEN <<Proposal("cwi_deviation", "warning",
                     metrics.cwi_deviation_within_20pct)>>
     ELSE <<>>)
    \o
    (IF trends.velocity_trend = "worsening"
     THEN <<Proposal("velocity_drop", "info", 0)>>
     ELSE <<>>)
    \o
    (IF metrics.budget_survival_pass_rate < 10 * BUDGET_SURVIVAL_WARNING_PCT
     THEN <<Proposal("budget_survival_low", "critical",
                     metrics.budget_survival_pass_rate)>>
     ELSE <<>>)

AlertTypes == {"participation_low", "cwi_deviation", "velocity_drop",
               "budget_survival_low"}

(***************************************************************************)
(* Snapshot store.                                                         *)
(***************************************************************************)
NoTime == -1        \* a NULL acknowledged_at / resolved_at

\* the trend query without the filter on is_complete
PreviousCandidatesAnyState(rows, join_code, window_type, window_start) ==
    {i \in DOMAIN rows :
        /\ rows[i].join_code = join_code
        /\ rows[i].window_type = window_type
        /\ rows[i].window_start < window_start}

\* the rows the trend query of create_snapshot matches
PreviousCandidates(rows, join_code, window_type, window_start) ==
    {i \in DOMAIN rows :
        /\ rows[i].join_code = join_code
        /\ rows[i].window_type = window_type
        /\ rows[i].window_start < window_start
        /\ rows[i].is_complete = TRUE}

\* order_by(window_start.desc()).first(): <<>> or a row of greatest start
PreviousChoices(rows, join_code, window_type, window_start) ==
    LET cand == PreviousCandidates(rows, join_code, window_type, window_start)
    IN  IF cand = {} THEN {<<>>}
        ELSE {<<rows[i]>> : i \in {j \in cand :
                \A k \in cand : rows[k].window_start <= rows[j].window_start}}

\* sum(s.get_checking_balance(...) for s in students)
RECURSIVE SumBalances(_, _, _)
SumBalances(S, teacher_id, join_code) ==
    IF S = {} THEN 0
    ELSE LET s == CHOOSE x \in S : TRUE
         IN  get_checking_balance(s, teacher_id, join_code)
                + SumBalances(S \ {s}, teacher_id, join_code)

\* total_balance / len(students) if students else 0.0
AvgBalance(teacher_id, join_code) ==
    LET students == _get_enrolled_students(join_code)
    IN  IF students = {} THEN Frac(0, 1)
        ELSE Frac(SumBalances(students, teacher_id, join_code),
                  Cardinality(students))

\* the AnalyticsSnapshot(...) row of create_snapshot for one outcome of the
\* two unordered queries (cwi, previous_snapshot)
SnapshotRow(id, teacher_id, join_code, window_type, window_start, window_end, is_complete, cwi, previous_snapshot) ==
    LET health_metrics ==
            compute_system_health(teacher_id, join_code, window_start,
                                  window_end, cwi)
        trends == compute_trends(health_metrics, previous_snapshot)
    IN  [id |-> id,
         teacher_id |-> teacher_id,
         join_code |-> join_code,
         window_type |-> window_type,
         window_start |-> window_start,
         window_end |-> window_end,
         participation_rate |-> health_metrics.participation_rate,
         money_velocity |-> health_metrics.money_velocity,
         cwi_deviation_within_20pct |-> health_metrics.cwi_deviation_within_20pct,
         budget_survival_pass_rate |-> health_metrics.budget_survival_pass_rate,
         cwi_value |-> health_metrics.cwi_value,
         avg_student_balance |-> AvgBalance(teacher_id, join_code),
         balance_trend |-> trends.balance_trend,
         velocity_trend |-> trends.velocity_trend,
         participation_trend |-> trends.participation_trend,
         total_students |-> health_metrics.total_students,
         active_students |-> health_metrics.active_students,
         total_transactions |->
            Cardinality(WindowTransactions(join_code, window_start, window_end)),
         computed_at |-> now,
         is_complete |-> is_complete]

\* AnalyticsAlert(...) with the column defaults
NewAlert(id, teacher_id, join_code, alert_data) ==
    [id |-> id,
     teacher_id |-> teacher_id,
     join_code |-> join_code,
     alert_type |-> alert_data.alert_type,
     severity |-> alert_data.severity,
     what_changed |-> alert_data.what_changed,
     why_it_matters |-> alert_data.why_it_matters,
     suggested_action |-> alert_data.suggested_action,
     triggered_at |-> now,
     acknowledged_at |-> NoTime,
     resolved_at |-> NoTime,
     is_active |-> TRUE]

\* the existing_alert query without the filter on is_active
ExistingAlertAnyState(rows, join_code, alert_type) ==
    {i \in DOMAIN rows :
        /\ rows[i].join_code = join_code
        /\ rows[i].alert_type = alert_type}

\* the existing_alert query of create_snapshot
ExistingAlertNever(rows, join_code, alert_type) == {}

ExistingAlert(rows, join_code, alert_type) ==
    {i \in DOMAIN rows :
        /\ rows[i].join_code = join_code
        /\ rows[i].alert_type = alert_type
        /\ rows[i].is_active = TRUE}

\* the loop over alerts in create_snapshot, run in one session
RECURSIVE SaveAlerts(_, _, _, _)
SaveAlerts(rows, proposals, teacher_id, join_code) ==
    IF proposals = <<>> THEN rows
    ELSE LET alert_data == Head(proposals)
             next == IF ExistingAlert(rows, join_code, alert_data.alert_type) = {}
                     THEN Append(rows, NewAlert(Len(rows) + 1, teacher_id,
                                                join_code, alert_data))
                     ELSE rows
         IN  SaveAlerts(next, Tail(proposals), teacher_id, join_code)

\* the rows the cache lookup of get_or_create_snapshot matches
LookupCandidates(rows, join_code, window_type, window_start, window_end) ==
    {i \in DOMAIN rows :
        /\ rows[i].join_code = join_code
        /\ rows[i].window_type = window_type
        /\ rows[i].window_start = window_start
        /\ rows[i].window_end = window_end}

(***************************************************************************)
(* Operations of the engine, each run to completion (one request at a      *)
(* time).                                                                  *)
(***************************************************************************)
Call(op, join_code, window_type, window_start, window_end, id) ==
    [op |-> op, join_code |-> join_code, window_type |-> window_type,
     window_start |-> window_start, window_end |-> window_end, id |-> id]

\* create_snapshot writing over the stored rows of its key instead of
\* adding a row
create_snapshot_superseding(op, teacher_id, join_code, window_type, window_start, window_end, is_complete) ==
    /\ Len(snapshots) < MaxSnapshots
    /\ \E cwi \in CwiChoices(teacher_id, join_code) :
       \E previous_snapshot \in
            PreviousChoices(snapshots, join_code, window_type, window_start) :
        LET snapshot == SnapshotRow(Len(snapshots) + 1, teacher_id, join_code,
                            window_type, window_start, window_end, is_complete,
                            cwi, previous_snapshot)
            same == LookupCandidates(snapshots, join_code, window_type,
                                     window_start, window_end)
            trends == [velocity_trend |-> snapshot.velocity_trend]
        IN  /\ snapshots' =
                IF same = {} THEN Append(snapshots, snapshot)
                ELSE [i \in DOMAIN snapshots |->
                        IF i \in same THEN [snapshot EXCEPT !.id = i]
                        ELSE snapshots[i]]
            /\ alerts' = SaveAlerts(alerts, generate_alerts(snapshot, trends),
                                    teacher_id, join_code)
            /\ ret' = Call(op, join_code, window_type, window_start,
                           window_end, snapshot.id)
    /\ UNCHANGED <<ledger, now, pc, loc>>

\* create_snapshot resolving the active alerts of the tenant whose kind the
\* new metrics do not propose
create_snapshot_resolving(op, teacher_id, join_code, window_type, window_start, window_end, is_complete) ==
    /\ Len(snapshots) < MaxSnapshots
    /\ \E cwi \in CwiChoices(teacher_id, join_code) :
       \E previous_snapshot \in
            PreviousChoices(snapshots, join_code, window_type, window_start) :
        LET snapshot == SnapshotRow(Len(snapshots) + 1, teacher_id, join_code,
                            window_type, window_start, window_end, is_complete,
                            cwi, previous_snapshot)
            trends == [velocity_trend |-> snapshot.velocity_trend]
            proposals == generate_alerts(snapshot, trends)
            kept == [i \in DOMAIN alerts |->
                        IF /\ alerts[i].join_code = join_code
                           /\ alerts[i].is_active
                           /\ \A k \in DOMAIN proposals :
                                proposals[k].alert_type # alerts[i].alert_type
                        THEN [alerts[i] EXCEPT !.is_active = FALSE,
                                               !.resolved_at = now]
                        ELSE alerts[i]]
        IN  /\ snapshots' = Append(snapshots, snapshot)
            /\ alerts' = SaveAlerts(kept, proposals, teacher_id, join_code)
            /\ ret' = Call(op, join_code, window_type, window_start,
                           window_end, snapshot.id)
    /\ UNCHANGED <<ledger, now, pc, loc>>

\* create_snapshot: compute, persist the snapshot, persist the new alerts
create_snapshot(op, teacher_id, join_code, window_type, window_start, window_end, is_complete) ==
    /\ Len(snapshots) < MaxSnapshots
    /\ \E cwi \in CwiChoices(teacher_id, join_code) :
       \E previous_snapshot \in
            PreviousChoices(snapshots, join_code, window_type, window_start) :
        LET snapshot == SnapshotRow(Len(snapshots) + 1, teacher_id, join_code,
                            window_type, window_start, window_end, is_complete,
                            cwi, previous_snapshot)
            trends == [velocity_trend |-> snapshot.velocity_trend]
        IN  /\ snapshots' = Append(snapshots, snapshot)
            /\ alerts' = SaveAlerts(alerts, generate_alerts(snapshot, trends),
                                    teacher_id, join_code)
            /\ ret' = Call(op, join_code, window_type, window_start,
                           window_end, snapshot.id)
    /\ UNCHANGED <<ledger, now, pc, loc>>

CreateSnapshot(teacher_id, join_code, window_type, window_start, window_end, is_complete) ==
    /\ create_snapshot("create_snapshot", teacher_id, join_code, window_type,
                       window_start, window_end, is_complete)
    /\ UNCHANGED observed

\* get_or_create_snapshot storing every row it computes as complete
GetOrCreateSnapshotAlwaysComplete(teacher_id, join_code, window_type, window_start, window_end) ==
    LET found == LookupCandidates(snapshots, join_code, window_type,
                                  window_start, window_end)
    IN  \/ /\ \E i \in found : snapshots[i].is_complete
           /\ \E i \in found :
                /\ snapshots[i].is_complete
                /\ ret' = Call("get_or_create_snapshot", join_code, window_type,
                               window_start, window_end, snapshots[i].id)
           /\ UNCHANGED <<ledger, snapshots, alerts, now, pc, loc, observed>>
        \/ /\ \/ found = {}
              \/ \E i \in found : ~snapshots[i].is_complete
           /\ create_snapshot("get_or_create_snapshot", teacher_id, join_code,
                              window_type, window_start, window_end, TRUE)
           /\ UNCHANGED observed

\* get_or_create_snapshot: .first() of the unordered lookup is None or any
\* matching row
GetOrCreateSnapshot(teacher_id, join_code, window_type, window_start, window_end) ==
    LET found == LookupCandidates(snapshots, join_code, window_type,
                                  window_start, window_end)
    IN  \/ /\ \E i \in found : snapshots[i].is_complete
           /\ \E i \in found :
                /\ snapshots[i].is_complete
                /\ ret' = Call("get_or_create_snapshot", join_code, window_type,
                               window_start, window_end, snapshots[i].id)
           /\ UNCHANGED <<ledger, snapshots, alerts, now, pc, loc, observed>>
        \/ /\ \/ found = {}
              \/ \E i \in found : ~snapshots[i].is_complete
           /\ create_snapshot("get_or_create_snapshot", teacher_id, join_code,
                              window_type, window_start, window_end,
                              window_end <= now)
           /\ UNCHANGED observed

\* acknowledge without the test of acknowledged_at
acknowledge_overwriting(alert_id) ==
    alerts' = [alerts EXCEPT ![alert_id].acknowledged_at = now]

\* AnalyticsAlert.acknowledge
acknowledge(alert_id) ==
    IF alerts[alert_id].acknowledged_at = NoTime
    THEN alerts' = [alerts EXCEPT ![alert_id].acknowledged_at = now]
    ELSE alerts' = alerts

\* the route acknowledge_alert(alert_id) of a session (teacher_id, join_code)
AcknowledgeAlert(alert_id, teacher_id, join_code) ==
    /\ IF /\ alert_id \in DOMAIN alerts
          /\ alerts[alert_id].teacher_id = teacher_id
          /\ alerts[alert_id].join_code = join_code
       THEN acknowledge(alert_id)
       ELSE alerts' = alerts
    /\ UNCHANGED <<ledger, snapshots, now, ret, pc, loc, observed>>

\* resolve setting the timestamp and leaving the alert active
resolve_keeping_active(alert_id) ==
    IF alerts[alert_id].resolved_at = NoTime
    THEN alerts' = [alerts EXCEPT ![alert_id].resolved_at = now]
    ELSE alerts' = alerts

\* AnalyticsAlert.resolve
resolve(alert_id) ==
    IF alerts[alert_id].resolved_at = NoTime
    THEN alerts' = [alerts EXCEPT ![alert_id].resolved_at = now,
                                  ![alert_id].is_active = FALSE]
    ELSE alerts' = alerts

ResolveAlert(alert_id) ==
    /\ alert_id \in DOMAIN alerts
    /\ resolve(alert_id)
    /\ UNCHANGED <<ledger, snapshots, now, ret, pc, loc, observed>>

\* time passes to the next instant of interest
Tick ==
    /\ \E t \in TimePoints :
        /\ t > now
        /\ \A u \in TimePoints : u > now => t <= u
        /\ now' = t
    /\ UNCHANGED <<ledger, snapshots, alerts, ret, pc, loc, observed>>

(***************************************************************************)
(* The engine serving one request at a time over a ledger that does not    *)
(* change.                                                                 *)
(***************************************************************************)
NoCall == Call("none", NULL, "", 0, 0, 0)

Procs == {1, 2}

Idle == [p \in Procs |-> "idle"]

\* a PayrollSettings row
PayrollRow(teacher_id, block, pay_rate, expected_weekly_hours) ==
    [teacher_id |-> teacher_id, block |-> block, pay_rate |-> pay_rate,
     expected_weekly_hours |-> expected_weekly_hours]

\* a Transaction row
TransactionRow(student_id, teacher_id, join_code, amount, timestamp, account_type, is_void) ==
    [student_id |-> student_id, teacher_id |-> teacher_id,
     join_code |-> join_code, amount |-> amount, timestamp |-> timestamp,
     account_type |-> account_type, is_void |-> is_void]

\* all sequences over D of length at most n
RECURSIVE SeqsUpTo(_, _)
SeqsUpTo(D, n) ==
    IF n = 0 THEN {<<>>}
    ELSE LET shorter == SeqsUpTo(D, n - 1)
         IN  shorter \cup {Append(q, x) : q \in shorter, x \in D}

Week1 == <<0, 7 * TicksPerDay>>
Week2 == <<7 * TicksPerDay, 14 * TicksPerDay>>
StoreEngines == {<<1, "A">>, <<1, "B">>}
StoreWindows == {Week1, Week2}
StoreTransactions == {TransactionRow(1, 1, "A", 75000, 0, "checking", FALSE)}
AlertIds == 1 .. MaxAlertId

Init ==
    /\ student_blocks = Students \X JoinCodes
    /\ transactions \in SeqsUpTo(StoreTransactions, MaxTx)
    /\ tap_events = <<>>
    /\ payroll_settings \in {<<>>, <<PayrollRow(1, NULL, 250, 5)>>}
    /\ snapshots = <<>>
    /\ alerts = <<>>
    /\ now = 0
    /\ ret = NoCall
    /\ pc = Idle
    /\ loc = Idle
    /\ observed = {}

Next ==
    \/ \E w \in StoreWindows :
        GetOrCreateSnapshot(1, "A", "week", w[1], w[2])
    \/ \E c \in BOOLEAN :
        CreateSnapshot(1, "A", "week", Week1[1], Week1[2], c)
    \/ Tick

Spec == Init /\ [][Next]_vars

(***************************************************************************)
(* The engine and the alert lifecycle, one request at a time.              *)
(***************************************************************************)
InitAlerts ==
    /\ student_blocks = Students \X JoinCodes
    /\ transactions \in SeqsUpTo(StoreTransactions, 1)
    /\ tap_events = <<>>
    /\ payroll_settings = <<PayrollRow(1, NULL, 250, 5)>>
    /\ snapshots = <<>>
    /\ alerts = <<>>
    /\ now \in TimePoints
    /\ ret = NoCall
    /\ pc = Idle
    /\ loc = Idle
    /\ observed = {}

NextAlerts ==
    \/ GetOrCreateSnapshot(1, "A", "week", Week1[1], Week1[2])
    \/ \E e \in StoreEngines :
        CreateSnapshot(e[1], e[2], "week", Week1[1], Week1[2], TRUE)
    \/ \E id \in AlertIds : AcknowledgeAlert(id, 1, "A")
    \/ \E id \in AlertIds : ResolveAlert(id)

SpecAlerts == InitAlerts /\ [][NextAlerts]_vars

(***************************************************************************)
(* Two requests get_or_create_snapshot(1, "A", "week", Week1) served       *)
(* concurrently, each in its own database session.  A session sees what    *)
(* others have committed; what it has added itself is pending until its    *)
(* commit.                                                                 *)
(***************************************************************************)
\* lines 556-565: the cache lookup; a complete row is returned
RaceLookup(p) ==
    /\ pc[p] = "idle"
    /\ LET found == LookupCandidates(snapshots, "A", "week", Week1[1], Week1[2])
       IN  \/ /\ \E i \in found :
                    /\ snapshots[i].is_complete
                    /\ loc' = [loc EXCEPT ![p] = [miss |-> FALSE, id |-> i]]
              /\ pc' = [pc EXCEPT ![p] = "done"]
           \/ /\ \/ found = {}
                 \/ \E i \in found : ~snapshots[i].is_complete
              /\ loc' = [loc EXCEPT ![p] = [miss |-> found = {},
                                            is_complete |-> Week1[2] <= now]]
              /\ pc' = [pc EXCEPT ![p] = "create"]
    /\ UNCHANGED <<ledger, snapshots, alerts, now, ret, observed>>

\* lines 464-519: compute, add the snapshot, commit, generate the alerts
RaceCreate(p) ==
    /\ pc[p] = "create"
    /\ \E cwi \in CwiChoices(1, "A") :
       \E previous_snapshot \in PreviousChoices(snapshots, "A", "week", Week1[1]) :
        LET snapshot == SnapshotRow(Len(snapshots) + 1, 1, "A", "week",
                            Week1[1], Week1[2], loc[p].is_complete, cwi,
                            previous_snapshot)
            trends == [velocity_trend |-> snapshot.velocity_trend]
        IN  /\ snapshots' = Append(snapshots, snapshot)
            /\ loc' = [loc EXCEPT ![p] =
                        [miss |-> loc[p].miss, id |-> snapshot.id,
                         todo |-> generate_alerts(snapshot, trends),
                         pending |-> <<>>]]
    /\ pc' = [pc EXCEPT ![p] = "alerts"]
    /\ UNCHANGED <<ledger, alerts, now, ret, observed>>

\* lines 520-538: one turn of the loop: the query sees the committed rows
\* and the session's own pending ones
RaceCheckAlert(p) ==
    /\ pc[p] = "alerts"
    /\ loc[p].todo # <<>>
    /\ LET alert_data == Head(loc[p].todo)
           visible == alerts \o loc[p].pending
           add == ExistingAlert(visible, "A", alert_data.alert_type) = {}
       IN  loc' = [loc EXCEPT
                ![p].todo = Tail(loc[p].todo),
                ![p].pending = IF add
                               THEN Append(loc[p].pending,
                                           NewAlert(0, 1, "A", alert_data))
                               ELSE loc[p].pending]
    /\ UNCHANGED <<ledger, snapshots, alerts, now, ret, pc, observed>>

\* a commit stores the pending alerts, which get their ids
RECURSIVE InsertAlerts(_, _)
InsertAlerts(rows, pending) ==
    IF pending = <<>> THEN rows
    ELSE InsertAlerts(Append(rows, [Head(pending) EXCEPT !.id = Len(rows) + 1]),
                      Tail(pending))

\* lines 540-542: commit the alerts and return the snapshot
RaceCommit(p) ==
    /\ pc[p] = "alerts"
    /\ loc[p].todo = <<>>
    /\ alerts' = InsertAlerts(alerts, loc[p].pending)
    /\ loc' = [loc EXCEPT ![p] = [miss |-> loc[p].miss, id |-> loc[p].id]]
    /\ pc' = [pc EXCEPT ![p] = "done"]
    /\ UNCHANGED <<ledger, snapshots, now, ret, observed>>

InitRace ==
    /\ student_blocks = Students \X JoinCodes
    /\ transactions \in SeqsUpTo(StoreTransactions, MaxTx)
    /\ tap_events = <<>>
    /\ payroll_settings \in {<<>>, <<PayrollRow(1, NULL, 250, 5)>>}
    /\ snapshots = <<>>
    /\ alerts = <<>>
    /\ now \in TimePoints
    /\ ret = NoCall
    /\ pc = Idle
    /\ loc = Idle
    /\ observed = {}

NextRace ==
    \E p \in Procs :
        \/ RaceLookup(p)
        \/ RaceCreate(p)
        \/ RaceCheckAlert(p)
        \/ RaceCommit(p)

SpecRace == InitRace /\ [][NextRace]_vars

(***************************************************************************)
(* Balance reads over ledgers drawn from a bounded set.                    *)
(***************************************************************************)
\* (teacher_id, join_code, amount) of the rows: tenant A, tenant B, legacy
\* rows of owner 1 and of owner 2; the amounts make every sum tell which
\* rows it counts
LedgerScopes ==
    {<<1, "A", 5000>>, <<1, "B", -2000>>, <<1, NULL, 3000>>, <<2, NULL, 700>>}

BalanceRows ==
    {TransactionRow(s, sc[1], sc[2], sc[3], 0, t, v) :
        s \in Students, sc \in LedgerScopes, t \in AccountTypes, v \in BOOLEAN}

\* student.get_checking_balance / get_savings_balance(teacher_id, join_code)
ReadBalance(s, teacher_id, join_code, account_type) ==
    /\ ret' = [op |-> "get_balance", student_id |-> s,
               teacher_id |-> teacher_id, join_code |-> join_code,
               account_type |-> account_type,
               value |-> IF account_type = "checking"
                         THEN get_checking_balance(s, teacher_id, join_code)
                         ELSE get_savings_balance(s, teacher_id, join_code)]
    /\ UNCHANGED <<ledger, snapshots, alerts, now, pc, loc, observed>>

InitBalance ==
    /\ student_blocks = {}
    /\ transactions \in SeqsUpTo(BalanceRows, MaxTx)
    /\ tap_events = <<>>
    /\ payroll_settings = <<>>
    /\ snapshots = <<>>
    /\ alerts = <<>>
    /\ now = 0
    /\ ret = NoCall
    /\ pc = Idle
    /\ loc = Idle
    /\ observed = {}

NextBalance ==
    \E O \in Teachers, t \in AccountTypes : ReadBalance(1, O, "A", t)

SpecBalance == InitBalance /\ [][NextBalance]_vars

(***************************************************************************)
(* Baseline reads over pay configurations drawn from a bounded set.        *)
(***************************************************************************)
PayrollRows ==
    {PayrollRow(t, b, r, 5) :
        t \in Teachers, b \in JoinCodes \cup {NULL}, r \in {0, 100, 250}}

\* engine._get_cwi() of AnalyticsEngine(teacher_id, join_code)
ReadCwi(teacher_id, join_code) ==
    /\ \E cwi \in CwiChoices(teacher_id, join_code) :
        ret' = [op |-> "_get_cwi", teacher_id |-> teacher_id,
                join_code |-> join_code, value |-> cwi]
    /\ UNCHANGED <<ledger, snapshots, alerts, now, pc, loc, observed>>

InitBaseline ==
    /\ student_blocks = {}
    /\ transactions = <<>>
    /\ tap_events = <<>>
    /\ payroll_settings \in SeqsUpTo(PayrollRows, MaxPayroll)
    /\ snapshots = <<>>
    /\ alerts = <<>>
    /\ now = 0
    /\ ret = NoCall
    /\ pc = Idle
    /\ loc = Idle
    /\ observed = {}

NextBaseline ==
    \E t \in Teachers, jc \in JoinCodes : ReadCwi(t, jc)

SpecBaseline == InitBaseline /\ [][NextBaseline]_vars

(***************************************************************************)
(* Metric reads of AnalyticsEngine(1, "A") over ledgers drawn from a       *)
(* bounded set.                                                            *)
(***************************************************************************)
MetricRows ==
    {TransactionRow(s, 1, jc, a, 0, "checking", FALSE) :
        s \in Students, jc \in JoinCodes, a \in {75000, -5000}}

\* a 7-day window, an empty window and a window that ends before it starts
MetricWindows == {Week1, <<0, 0>>, <<7 * TicksPerDay, 0>>}

CwiValues == {0, 75000}

ReadCwiDeviation(window_start, window_end, cwi) ==
    /\ ret' = [op |-> "calculate_cwi_deviation_distribution",
               window_start |-> window_start, window_end |-> window_end,
               cwi |-> cwi,
               value |-> calculate_cwi_deviation_distribution(1, "A",
                            window_start, window_end, cwi)]
    /\ UNCHANGED <<ledger, snapshots, alerts, now, pc, loc, observed>>

ReadBudgetSurvival(cwi) ==
    /\ ret' = [op |-> "calculate_budget_survival_pass_rate", cwi |-> cwi,
               value |-> calculate_budget_survival_pass_rate(1, "A", cwi)]
    /\ UNCHANGED <<ledger, snapshots, alerts, now, pc, loc, observed>>

InitMetrics ==
    /\ student_blocks \in SUBSET (Students \X {"A"})
    /\ transactions \in SeqsUpTo(MetricRows, MaxTx)
    /\ tap_events = <<>>
    /\ payroll_settings = <<>>
    /\ snapshots = <<>>
    /\ alerts = <<>>
    /\ now = 0
    /\ ret = NoCall
    /\ pc = Idle
    /\ loc = Idle
    /\ observed = {}

NextMetrics ==
    \/ \E w \in MetricWindows, cwi \in CwiValues :
        ReadCwiDeviation(w[1], w[2], cwi)
    \/ \E cwi \in CwiValues : ReadBudgetSurvival(cwi)

SpecMetrics == InitMetrics /\ [][NextMetrics]_vars

(***************************************************************************)
(* The participation rate read over ledgers with void transactions,        *)
(* soft-deleted presence events, events at the edges of the window and     *)
(* events of subjects who are not enrolled in the tenant.                  *)
(***************************************************************************)
TapEventRow(student_id, join_code, timestamp, is_deleted) ==
    [student_id |-> student_id, join_code |-> join_code,
     timestamp |-> timestamp, is_deleted |-> is_deleted]

ParticipationRows ==
    {TransactionRow(s, 1, jc, 5000, t, "checking", v) :
        s \in Students, jc \in JoinCodes, t \in TimePoints, v \in BOOLEAN}

ParticipationTaps ==
    {TapEventRow(s, "A", t, d) :
        s \in Students, t \in TimePoints, d \in BOOLEAN}

ReadParticipation(window_start, window_end) ==
    /\ ret' = [op |-> "calculate_participation_rate",
               window_start |-> window_start, window_end |-> window_end,
               value |-> calculate_participation_rate("A", window_start,
                                                      window_end)]
    /\ UNCHANGED <<ledger, snapshots, alerts, now, pc, loc, observed>>

InitParticipation ==
    /\ student_blocks \in SUBSET (Students \X {"A"})
    /\ transactions \in SeqsUpTo(ParticipationRows, 1)
    /\ tap_events \in SeqsUpTo(ParticipationTaps, MaxTaps)
    /\ payroll_settings = <<>>
    /\ snapshots = <<>>
    /\ alerts = <<>>
    /\ now = 0
    /\ ret = NoCall
    /\ pc = Idle
    /\ loc = Idle
    /\ observed = {}

NextParticipation ==
    \E w \in StoreWindows : ReadParticipation(w[1], w[2])

SpecParticipation == InitParticipation /\ [][NextParticipation]_vars

(***************************************************************************)
(* Money velocity read over windows of seven days, five days, half a day,  *)
(* no length, and with the end before the start.                           *)
(***************************************************************************)
VelocityRows ==
    {TransactionRow(1, 1, jc, 5000, t, "checking", v) :
        jc \in JoinCodes, t \in {0, 5 * TicksPerDay}, v \in BOOLEAN}

VelocityWindows ==
    {Week1, <<0, 5 * TicksPerDay>>, <<0, 1>>, <<0, 0>>, <<7 * TicksPerDay, 0>>}

ReadVelocity(window_start, window_end) ==
    /\ ret' = [op |-> "calculate_money_velocity",
               window_start |-> window_start, window_end |-> window_end,
               value |-> calculate_money_velocity("A", window_start,
                                                  window_end)]
    /\ UNCHANGED <<ledger, snapshots, alerts, now, pc, loc, observed>>

InitVelocity ==
    /\ student_blocks \in SUBSET (Students \X {"A"})
    /\ transactions \in SeqsUpTo(VelocityRows, MaxTx)
    /\ tap_events = <<>>
    /\ payroll_settings = <<>>
    /\ snapshots = <<>>
    /\ alerts = <<>>
    /\ now = 0
    /\ ret = NoCall
    /\ pc = Idle
    /\ loc = Idle
    /\ observed = {}

NextVelocity ==
    \E w \in VelocityWindows : ReadVelocity(w[1], w[2])

SpecVelocity == InitVelocity /\ [][NextVelocity]_vars

(***************************************************************************)
(* The baseline-deviation metric read with a positive baseline over        *)
(* balances inside, outside and exactly on the edge of the band.           *)
(***************************************************************************)
DeviationRows ==
    {TransactionRow(s, 1, "A", a, 0, "checking", FALSE) :
        s \in Students, a \in {3600, 3000, 144000}}

DeviationWindows == {Week1, <<0, 14 * TicksPerDay>>}

DeviationCwiValues == {3000, 120000}

InitDeviation ==
    /\ student_blocks \in SUBSET (Students \X {"A"})
    /\ transactions \in SeqsUpTo(DeviationRows, MaxTx)
    /\ tap_events = <<>>
    /\ payroll_settings = <<>>
    /\ snapshots = <<>>
    /\ alerts = <<>>
    /\ now = 0
    /\ ret = NoCall
    /\ pc = Idle
    /\ loc = Idle
    /\ observed = {}

NextDeviation ==
    \E w \in DeviationWindows, cwi \in DeviationCwiValues :
        ReadCwiDeviation(w[1], w[2], cwi)

SpecDeviation == InitDeviation /\ [][NextDeviation]_vars

(***************************************************************************)
(* The trend comparator applied to pairs of values, with and without a     *)
(* previous value, under two thresholds.                                   *)
(***************************************************************************)
TrendValues ==
    {Frac(0, 1), Frac(9, 100), Frac(1, 10), Frac(11, 100), Frac(80, 1),
     Frac(90, 1), Frac(98, 1), Frac(100, 1), Frac(110, 1), Frac(-100, 1)}

TrendThresholds == {TREND_THRESHOLD_PCT, 2 * TREND_THRESHOLD_PCT}

ReadTrend(current_value, previous_value, threshold_pct) ==
    /\ ret' = [op |-> "calculate_trend", current_value |-> current_value,
               previous_value |-> previous_value,
               threshold_pct |-> threshold_pct,
               value |-> calculate_trend(current_value, previous_value,
                                         threshold_pct)]
    /\ UNCHANGED <<ledger, snapshots, alerts, now, pc, loc, observed>>

InitTrend ==
    /\ student_blocks = {}
    /\ transactions = <<>>
    /\ tap_events = <<>>
    /\ payroll_settings = <<>>
    /\ snapshots = <<>>
    /\ alerts = <<>>
    /\ now = 0
    /\ ret = NoCall
    /\ pc = Idle
    /\ loc = Idle
    /\ observed = {}

NextTrend ==
    \E c \in TrendValues, p \in {<<>>} \cup {<<v>> : v \in TrendValues},
       t \in TrendThresholds :
        ReadTrend(c, p, t)

SpecTrend == InitTrend /\ [][NextTrend]_vars

(***************************************************************************)
(* Tenant A without enrolled students: its four metrics and its snapshots  *)
(* over ledgers, presence events and payroll settings that carry its join  *)
(* code, while students are enrolled with tenant B.                        *)
(***************************************************************************)
EmptyClassRows ==
    {TransactionRow(s, 1, jc, 75000, 0, "checking", FALSE) :
        s \in Students, jc \in JoinCodes}

EmptyClassTaps == {<<>>, <<TapEventRow(1, "A", 0, FALSE)>>}

EmptyClassPayroll == {<<>>, <<PayrollRow(1, "A", 250, 5)>>}

EmptyClassWindows == {Week1, <<0, 0>>}

InitEmptyClass ==
    /\ student_blocks \in {{}, Students \X {"B"}}
    /\ transactions \in SeqsUpTo(EmptyClassRows, 1)
    /\ tap_events \in EmptyClassTaps
    /\ payroll_settings \in EmptyClassPayroll
    /\ snapshots = <<>>
    /\ alerts = <<>>
    /\ now = 0
    /\ ret = NoCall
    /\ pc = Idle
    /\ loc = Idle
    /\ observed = {}

NextEmptyClass ==
    \/ \E w \in EmptyClassWindows : ReadParticipation(w[1], w[2])
    \/ \E w \in EmptyClassWindows : ReadVelocity(w[1], w[2])
    \/ \E w \in EmptyClassWindows, cwi \in CwiValues :
        ReadCwiDeviation(w[1], w[2], cwi)
    \/ \E cwi \in CwiValues : ReadBudgetSurvival(cwi)
    \/ \E w \in EmptyClassWindows :
        CreateSnapshot(1, "A", "week", w[1], w[2], TRUE)

SpecEmptyClass == InitEmptyClass /\ [][NextEmptyClass]_vars

(***************************************************************************)
(* Stored alerts acknowledged and resolved again and again while time      *)
(* passes.  Each call records the alert table it found.                    *)
(***************************************************************************)
StoredAlerts ==
    <<NewAlert(1, 1, "A", Proposal("participation_low", "warning", 0)),
      NewAlert(2, 1, "A", Proposal("budget_survival_low", "critical", 0))>>

\* the route acknowledge_alert(alert_id) of a session (teacher_id, join_code)
acknowledge_alert(alert_id, teacher_id, join_code) ==
    /\ IF /\ alert_id \in DOMAIN alerts
          /\ alerts[alert_id].teacher_id = teacher_id
          /\ alerts[alert_id].join_code = join_code
       THEN acknowledge(alert_id)
       ELSE alerts' = alerts
    /\ ret' = [op |-> "acknowledge", id |-> alert_id,
               join_code |-> join_code, before |-> alerts]
    /\ UNCHANGED <<ledger, snapshots, now, pc, loc, observed>>

\* alert.resolve() on a stored alert
resolve_alert(alert_id) ==
    /\ alert_id \in DOMAIN alerts
    /\ resolve(alert_id)
    /\ ret' = [op |-> "resolve", id |-> alert_id,
               join_code |-> alerts[alert_id].join_code, before |-> alerts]
    /\ UNCHANGED <<ledger, snapshots, now, pc, loc, observed>>

InitLifecycle ==
    /\ student_blocks = {}
    /\ transactions = <<>>
    /\ tap_events = <<>>
    /\ payroll_settings = <<>>
    /\ snapshots = <<>>
    /\ now = 0
    /\ alerts = StoredAlerts
    /\ ret = NoCall
    /\ pc = Idle
    /\ loc = Idle
    /\ observed = {}

NextLifecycle ==
    \/ \E id \in AlertIds, jc \in JoinCodes : acknowledge_alert(id, 1, jc)
    \/ \E id \in AlertIds : resolve_alert(id)
    \/ Tick

SpecLifecycle == InitLifecycle /\ [][NextLifecycle]_vars

(***************************************************************************)
(* Every operation that could touch a stored snapshot: lookups and         *)
(* computations for the same key and for another tenant, complete and      *)
(* incomplete, acknowledging and resolving, while time passes.             *)
(***************************************************************************)
InitWriteOnce ==
    /\ student_blocks = Students \X JoinCodes
    /\ transactions = <<TransactionRow(1, 1, "A", 75000, 0, "checking", FALSE)>>
    /\ tap_events = <<>>
    /\ payroll_settings = <<PayrollRow(1, NULL, 250, 5)>>
    /\ snapshots = <<>>
    /\ alerts = <<>>
    /\ now = 0
    /\ ret = NoCall
    /\ pc = Idle
    /\ loc = Idle
    /\ observed = {}

NextWriteOnce ==
    \/ GetOrCreateSnapshot(1, "A", "week", Week1[1], Week1[2])
    \/ \E e \in StoreEngines, c \in BOOLEAN :
        CreateSnapshot(e[1], e[2], "week", Week1[1], Week1[2], c)
    \/ AcknowledgeAlert(1, 1, "A")
    \/ ResolveAlert(1)
    \/ Tick

SpecWriteOnce == InitWriteOnce /\ [][NextWriteOnce]_vars

(***************************************************************************)
(* The alert generator applied to metric values below, on and above each   *)
(* threshold, with each velocity trend.                                    *)
(***************************************************************************)
\* (active / total) * 100 for 0/1, 2/3, 7/10, 5/7 and 1/1
RuleParticipation ==
    {Frac(0, 1), Frac(200, 3), Frac(700, 10), Frac(500, 7), Frac(100, 1)}

\* percentages rounded to one decimal, in tenths
RuleDeviation == {0, 799, 800, 801, 1000}

RuleSurvival == {0, 499, 500, 501, 1000}

RuleTrends == {"improving", "stable", "worsening"}

ReadAlerts(metrics, trends) ==
    /\ ret' = [op |-> "generate_alerts", metrics |-> metrics,
               trends |-> trends, value |-> generate_alerts(metrics, trends)]
    /\ UNCHANGED <<ledger, snapshots, alerts, now, pc, loc, observed>>

InitRules ==
    /\ student_blocks = {}
    /\ transactions = <<>>
    /\ tap_events = <<>>
    /\ payroll_settings = <<>>
    /\ snapshots = <<>>
    /\ alerts = <<>>
    /\ now = 0
    /\ ret = NoCall
    /\ pc = Idle
    /\ loc = Idle
    /\ observed = {}

NextRules ==
    \E p \in RuleParticipation, d \in RuleDeviation, b \in RuleSurvival,
       t \in RuleTrends :
        ReadAlerts([participation_rate |-> p,
                    cwi_deviation_within_20pct |-> d,
                    budget_survival_pass_rate |-> b],
                   [velocity_trend |-> t])

SpecRules == InitRules /\ [][NextRules]_vars

(***************************************************************************)
(* The window resolver of the routes.  custom_start and custom_end are     *)
(* <<>> (None) or <<t>>; the result is <<window_start, window_end>>.       *)
(***************************************************************************)
\* the resolver taking 'custom' with a start only, up to now
get_time_window_open_ended(window_type, custom_start, custom_end) ==
    IF window_type = "week" THEN <<now - 7 * TicksPerDay, now>>
    ELSE IF window_type = "month" THEN <<now - 30 * TicksPerDay, now>>
    ELSE IF window_type = "pay_cycle" THEN <<now - 7 * TicksPerDay, now>>
    ELSE IF window_type = "rent_cycle" THEN <<now - 30 * TicksPerDay, now>>
    ELSE IF window_type = "custom" /\ custom_start # <<>>
        THEN <<custom_start[1], IF custom_end # <<>> THEN custom_end[1] ELSE now>>
    ELSE <<now - 7 * TicksPerDay, now>>

get_time_window(window_type, custom_start, custom_end) ==
    IF window_type = "week" THEN <<now - 7 * TicksPerDay, now>>
    ELSE IF window_type = "month" THEN <<now - 30 * TicksPerDay, now>>
    ELSE IF window_type = "pay_cycle" THEN <<now - 7 * TicksPerDay, now>>
    ELSE IF window_type = "rent_cycle" THEN <<now - 30 * TicksPerDay, now>>
    ELSE IF window_type = "custom" /\ custom_start # <<>> /\ custom_end # <<>>
        THEN <<custom_start[1], custom_end[1]>>
    ELSE <<now - 7 * TicksPerDay, now>>

\* the names the routes document, and names they do not know
WindowNames ==
    {"week", "month", "pay_cycle", "rent_cycle", "custom", "quarter", "WEEK",
     ""}

CustomBounds == {<<>>} \cup {<<t>> : t \in TimePoints}

ResolveWindow(window_type, custom_start, custom_end) ==
    /\ ret' = [op |-> "get_time_window", window_type |-> window_type,
               custom_start |-> custom_start, custom_end |-> custom_end,
               now |-> now,
               value |-> get_time_window(window_type, custom_start,
                                         custom_end)]
    /\ UNCHANGED <<ledger, snapshots, alerts, now, pc, loc, observed>>

InitWindow ==
    /\ student_blocks = Students \X {"A"}
    /\ transactions \in SeqsUpTo(StoreTransactions, 1)
    /\ tap_events = <<>>
    /\ payroll_settings = <<PayrollRow(1, NULL, 250, 5)>>
    /\ snapshots = <<>>
    /\ now = 0
    /\ alerts = StoredAlerts
    /\ ret = NoCall
    /\ pc = Idle
    /\ loc = Idle
    /\ observed = {}

NextWindow ==
    \/ \E w \in WindowNames, cs \in CustomBounds, ce \in CustomBounds :
        ResolveWindow(w, cs, ce)
    \/ Tick

SpecWindow == InitWindow /\ [][NextWindow]_vars

(***************************************************************************)
(* One request get_or_create_snapshot(1, "A", "week", Week1) that can fail *)
(* at a storage step and is then retried.  An exception leaves             *)
(* create_snapshot at once: what was committed stays, what the session had *)
(* pending is lost.                                                        *)
(***************************************************************************)
\* the exception handled by storing a snapshot without data and returning it
RaceFailAsEmpty(p) ==
    /\ pc[p] \in {"create", "alerts"}
    /\ Len(snapshots) < MaxSnapshots
    /\ snapshots' = Append(snapshots,
            [SnapshotRow(Len(snapshots) + 1, 1, "A", "week", Week1[1],
                         Week1[2], FALSE, 0, <<>>)
                EXCEPT !.total_students = 0, !.active_students = 0,
                       !.total_transactions = 0,
                       !.participation_rate = Frac(0, 1),
                       !.money_velocity = 0])
    /\ pc' = [pc EXCEPT ![p] = "done"]
    /\ loc' = [loc EXCEPT ![p] = [miss |-> TRUE, id |-> Len(snapshots) + 1]]
    /\ UNCHANGED <<ledger, alerts, now, ret, observed>>

\* a query or a commit raises: before the snapshot is committed (line 516)
\* or after it and before the alerts are committed (line 540); nothing
\* catches the exception, so the caller gets it
RaceFail(p) ==
    /\ pc[p] \in {"create", "alerts"}
    /\ Len(snapshots) < MaxSnapshots
    /\ pc' = [pc EXCEPT ![p] = "failed"]
    /\ loc' = [loc EXCEPT ![p] = [raised |-> TRUE]]
    /\ UNCHANGED <<ledger, snapshots, alerts, now, ret, observed>>

\* the caller makes the same request again
RaceRetry(p) ==
    /\ pc[p] = "failed"
    /\ pc' = [pc EXCEPT ![p] = "idle"]
    /\ loc' = [loc EXCEPT ![p] = "idle"]
    /\ UNCHANGED <<ledger, snapshots, alerts, now, ret, observed>>

NextRetry ==
    \/ RaceLookup(1)
    \/ RaceCreate(1)
    \/ RaceCheckAlert(1)
    \/ RaceCommit(1)
    \/ RaceFail(1)
    \/ RaceRetry(1)

SpecRetry == InitRace /\ [][NextRetry]_vars

(***************************************************************************)
(* Snapshots of two tenants, two window types and two windows, complete    *)
(* and incomplete, in every order, over a ledger whose activity differs    *)
(* from window to window and from tenant to tenant.                        *)
(***************************************************************************)
InitPrevious ==
    /\ student_blocks = Students \X JoinCodes
    /\ transactions =
        <<TransactionRow(1, 1, "A", 75000, Week1[1], "checking", FALSE),
          TransactionRow(1, 1, "A", 75000, Week2[1], "checking", FALSE),
          TransactionRow(1, 1, "A", 75000, Week2[1], "checking", FALSE),
          TransactionRow(1, 1, "A", 75000, Week2[1], "checking", FALSE),
          TransactionRow(1, 1, "B", 75000, Week1[1], "checking", FALSE),
          TransactionRow(1, 1, "B", 75000, Week1[1], "checking", FALSE)>>
    /\ tap_events = <<>>
    /\ payroll_settings = <<PayrollRow(1, NULL, 250, 5)>>
    /\ snapshots = <<>>
    /\ alerts = <<>>
    /\ now = 0
    /\ ret = NoCall
    /\ pc = Idle
    /\ loc = Idle
    /\ observed = {}

NextPrevious ==
    \E e \in StoreEngines, t \in {"week", "month"}, w \in StoreWindows,
       c \in BOOLEAN :
        CreateSnapshot(e[1], e[2], t, w[1], w[2], c)

SpecPrevious == InitPrevious /\ [][NextPrevious]_vars

(***************************************************************************)
(* Changes to the data of one tenant, interleaved with snapshot            *)
(* computations of AnalyticsEngine(1, "A").                                *)
(***************************************************************************)
Change(op, join_code) == [op |-> op, join_code |-> join_code]

\* a Transaction row is written for a tenant
AddTransaction(student_id, teacher_id, join_code, amount, timestamp, account_type) ==
    /\ Len(transactions) < MaxTx
    /\ transactions' = Append(transactions,
            TransactionRow(student_id, teacher_id, join_code, amount,
                           timestamp, account_type, FALSE))
    /\ ret' = Change("add_transaction", join_code)
    /\ UNCHANGED <<student_blocks, tap_events, payroll_settings, snapshots,
                   alerts, now, pc, loc>>

\* void_transaction appending the refund row and leaving the flag of the
\* voided row as it was
VoidTransactionKeepingFlag(tx_id) ==
    /\ tx_id \in DOMAIN transactions
    /\ Len(transactions) < MaxTx + 1
    /\ IF transactions[tx_id].is_void
       THEN transactions' = transactions
       ELSE transactions' = Append(transactions,
                TransactionRow(transactions[tx_id].student_id, None, NULL,
                               -transactions[tx_id].amount, now,
                               transactions[tx_id].account_type, TRUE))
    /\ ret' = Change("void_transaction", transactions[tx_id].join_code)
    /\ UNCHANGED <<student_blocks, tap_events, payroll_settings, snapshots,
                   alerts, now, pc, loc>>

\* void_transaction(tx_id): flips the flag and appends the refund row, which
\* carries no teacher_id and no join_code and is itself void
VoidTransaction(tx_id) ==
    /\ tx_id \in DOMAIN transactions
    /\ Len(transactions) < MaxTx + 1
    /\ IF transactions[tx_id].is_void
       THEN transactions' = transactions
       ELSE transactions' = Append(
                [transactions EXCEPT ![tx_id].is_void = TRUE],
                TransactionRow(transactions[tx_id].student_id, None, NULL,
                               -transactions[tx_id].amount, now,
                               transactions[tx_id].account_type, TRUE))
    /\ ret' = Change("void_transaction", transactions[tx_id].join_code)
    /\ UNCHANGED <<student_blocks, tap_events, payroll_settings, snapshots,
                   alerts, now, pc, loc>>

\* a TapEvent row is written for a tenant
AddTapEvent(student_id, join_code, timestamp) ==
    /\ Len(tap_events) < MaxTaps
    /\ tap_events' = Append(tap_events,
            [student_id |-> student_id, join_code |-> join_code,
             timestamp |-> timestamp, is_deleted |-> FALSE])
    /\ ret' = Change("add_tap_event", join_code)
    /\ UNCHANGED <<student_blocks, transactions, payroll_settings, snapshots,
                   alerts, now, pc, loc>>

\* a StudentBlock row links a student to a tenant
Enroll(student_id, join_code) ==
    /\ student_blocks' = student_blocks \cup {<<student_id, join_code>>}
    /\ ret' = Change("enroll", join_code)
    /\ UNCHANGED <<transactions, tap_events, payroll_settings, snapshots,
                   alerts, now, pc, loc>>

\* the PayrollSettings row of (teacher_id, block) is written or rewritten
SetPayroll(teacher_id, block, pay_rate) ==
    /\ LET mine == {i \in DOMAIN payroll_settings :
                        /\ payroll_settings[i].teacher_id = teacher_id
                        /\ payroll_settings[i].block = block}
       IN  IF mine = {}
           THEN /\ Len(payroll_settings) < MaxPayroll
                /\ payroll_settings' = Append(payroll_settings,
                        PayrollRow(teacher_id, block, pay_rate, 5))
           ELSE payroll_settings' =
                    [i \in DOMAIN payroll_settings |->
                        IF i \in mine
                        THEN [payroll_settings[i] EXCEPT !.pay_rate = pay_rate]
                        ELSE payroll_settings[i]]
    /\ ret' = Change("set_payroll", block)
    /\ UNCHANGED <<student_blocks, transactions, tap_events, snapshots,
                   alerts, now, pc, loc>>

\* an alert row as the dashboard shows it
Shown(alert) ==
    [alert_type |-> alert.alert_type, severity |-> alert.severity,
     what_changed |-> alert.what_changed,
     triggered_at |-> alert.triggered_at,
     acknowledged_at |-> alert.acknowledged_at,
     is_active |-> alert.is_active]

\* the snapshot rows a computation for (teacher_id, join_code) can build now,
\* one for each window and each outcome of its two unordered queries
Computations(teacher_id, join_code) ==
    UNION {UNION {{SnapshotRow(0, teacher_id, join_code, "week", w[1], w[2],
                               TRUE, cwi, prev) :
                    prev \in PreviousChoices(snapshots, join_code, "week", w[1])} :
                 cwi \in CwiChoices(teacher_id, join_code)} :
           w \in StoreWindows}

\* the result of one computation: every metric, count and trend, the alerts
\* it proposes and the active alerts of the tenant after it
Outcome(row, proposals, after, join_code) ==
    [snapshot |-> row, proposals |-> proposals,
     alerts |-> {Shown(after[i]) : i \in {j \in DOMAIN after :
                    after[j].join_code = join_code /\ after[j].is_active}}]

Outcomes(row, teacher_id, join_code) ==
    UNION {{Outcome(row, proposals, after, join_code) :
                after \in {SaveAlerts(alerts, proposals, teacher_id, join_code)}} :
           proposals \in {generate_alerts(row, row)}}

\* everything a snapshot computation for the tenant can produce now
View(teacher_id, join_code) ==
    UNION {Outcomes(row, teacher_id, join_code) :
           row \in Computations(teacher_id, join_code)}

IsolationRows ==
    {TransactionRow(1, 1, "A", 75000, 0, "checking", FALSE),
     TransactionRow(1, 1, NULL, 3000, 0, "checking", FALSE)}

InitIsolation ==
    /\ student_blocks = Students \X {"A"}
    /\ transactions \in {<<r>> : r \in IsolationRows}
    /\ tap_events = <<>>
    /\ payroll_settings = <<PayrollRow(1, NULL, 250, 5)>>
    /\ snapshots = <<>>
    /\ alerts = <<>>
    /\ now = 0
    /\ ret = NoCall
    /\ pc = Idle
    /\ loc = Idle
    /\ observed = {}

\* the number of rows in the database
Rows ==
    Cardinality(student_blocks) + Len(transactions) + Len(tap_events)
        + Len(payroll_settings) + Len(snapshots)

\* the result of a computation for tenant A before the step is recorded
Watch ==
    /\ Rows < MaxRows
    /\ observed' = View(1, "A")

\* every change of the data of tenant B, and the snapshots of tenant A
NextIsolation ==
    \/ \E s \in Students :
        Watch /\ AddTransaction(s, 1, "B", 5000, 0, "checking")
    \/ \E i \in DOMAIN transactions :
        Watch /\ transactions[i].join_code = "B" /\ VoidTransaction(i)
    \/ \E s \in Students : Watch /\ AddTapEvent(s, "B", 0)
    \/ \E s \in Students : Watch /\ Enroll(s, "B")
    \/ \E r \in {100, 250} : Watch /\ SetPayroll(1, "B", r)
    \/ \E jc \in JoinCodes :
        /\ Watch
        /\ create_snapshot("create_snapshot", 1, jc, "week", Week1[1],
                           Week1[2], TRUE)

SpecIsolation == InitIsolation /\ [][NextIsolation]_vars

(***************************************************************************)
(* Properties of the snapshot cache.                                       *)
(***************************************************************************)
SameKey(r1, r2) ==
    /\ r1.join_code = r2.join_code
    /\ r1.window_type = r2.window_type
    /\ r1.window_start = r2.window_start
    /\ r1.window_end = r2.window_end

CompleteRows(join_code, window_type, window_start, window_end) ==
    {i \in LookupCandidates(snapshots, join_code, window_type, window_start,
                            window_end) : snapshots[i].is_complete}

\* C1: whenever a complete snapshot is stored for a key, a
\* get_or_create_snapshot call for that key returns a stored complete row
\* of the key and creates or changes no snapshot row and no alert row.
C1_CacheHitNoRecomputation ==
    [][\A w \in StoreWindows :
        (/\ CompleteRows("A", "week", w[1], w[2]) # {}
         /\ GetOrCreateSnapshot(1, "A", "week", w[1], w[2]))
        => /\ snapshots' = snapshots
           /\ alerts' = alerts
           /\ ret'.id \in CompleteRows("A", "week", w[1], w[2])]_vars

\* C2: the snapshot table holds at most one row per key (tenant, window
\* type, window start, window end).
C2_OneSnapshotPerKey ==
    \A i, j \in DOMAIN snapshots :
        SameKey(snapshots[i], snapshots[j]) => i = j

(***************************************************************************)
(* Properties of the alert table.                                          *)
(***************************************************************************)
ActiveAlerts(join_code, alert_type) ==
    {i \in DOMAIN alerts :
        /\ alerts[i].join_code = join_code
        /\ alerts[i].alert_type = alert_type
        /\ alerts[i].is_active}

\* C4: with one request served at a time there is at most one active alert
\* per (tenant, alert kind), whatever the order of create_snapshot,
\* get_or_create_snapshot, acknowledge and resolve.
C4_OneActiveAlertPerKind ==
    \A jc \in JoinCodes, k \in AlertTypes :
        Cardinality(ActiveAlerts(jc, k)) <= 1

\* two computations for the tenant have run, a resolved alert of a kind
\* exists and the kind is active again
C4_Witness ==
    \E i, j \in DOMAIN alerts :
        /\ i # j
        /\ alerts[i].join_code = alerts[j].join_code
        /\ alerts[i].alert_type = alerts[j].alert_type
        /\ ~alerts[i].is_active
        /\ alerts[j].is_active
        /\ Cardinality({n \in DOMAIN snapshots :
                snapshots[n].join_code = alerts[i].join_code}) >= 2

(***************************************************************************)
(* Properties of concurrent requests.                                      *)
(***************************************************************************)
\* C3: when two get_or_create_snapshot calls for the same uncached key have
\* both looked up before either persisted, then once both have returned
\* exactly one snapshot row exists for the key and both returned that row.
C3_RaceResolvesToOneRow ==
    (\A p \in Procs : pc[p] = "done" /\ loc[p].miss)
    => /\ Cardinality(LookupCandidates(snapshots, "A", "week",
                                       Week1[1], Week1[2])) = 1
       /\ \A p, q \in Procs : loc[p].id = loc[q].id

\* C5: also when two computations for the tenant run concurrently there is
\* never more than one active alert per (tenant, alert kind).
C5_OneActiveAlertPerKindConcurrent ==
    \A k \in AlertTypes :
        \A i, j \in ActiveAlerts("A", k) : i = j

(***************************************************************************)
(* Properties of the balance computation.                                  *)
(***************************************************************************)
\* what event i contributes to the balance of subject s in a bucket for
\* tenant T and owner O
Contribution(i, s, T, O, bucket) ==
    LET tx == transactions[i]
    IN  IF tx.student_id # s \/ tx.account_type # bucket THEN 0
        ELSE IF tx.is_void THEN 0
        ELSE IF tx.join_code = T THEN tx.amount
        ELSE IF tx.join_code = NULL /\ tx.teacher_id = O THEN tx.amount
        ELSE 0

RECURSIVE ContributionsUpTo(_, _, _, _, _)
ContributionsUpTo(n, s, T, O, bucket) ==
    IF n = 0 THEN 0
    ELSE Contribution(n, s, T, O, bucket)
            + ContributionsUpTo(n - 1, s, T, O, bucket)

\* C7: the balance of a subject for tenant T and owner O is the sum of the
\* amounts of the subject's events in the bucket that are not void and carry
\* tenant key T, or a null tenant key together with owner id O; every other
\* event contributes nothing.
C7_BalanceScoping ==
    ret.op = "get_balance"
    => ret.value = ContributionsUpTo(Len(transactions), ret.student_id,
                        ret.join_code, ret.teacher_id, ret.account_type)

\* a balance was read where one legacy event of the owner counts and one
\* legacy event of another owner and a void event do not
C7_Witness ==
    /\ ret.op = "get_balance"
    /\ ret.value # 0
    /\ \E i, j \in DOMAIN transactions :
        /\ i # j
        /\ transactions[i].student_id = ret.student_id
        /\ transactions[j].student_id = ret.student_id
        /\ transactions[i].account_type = ret.account_type
        /\ transactions[j].account_type = ret.account_type
        /\ transactions[i].join_code = NULL
        /\ transactions[i].teacher_id = ret.teacher_id
        /\ ~transactions[i].is_void
        /\ \/ /\ transactions[j].join_code = NULL
              /\ transactions[j].teacher_id # ret.teacher_id
              /\ ~transactions[j].is_void
           \/ transactions[j].is_void

(***************************************************************************)
(* Properties of the baseline and of the metrics.                          *)
(***************************************************************************)
TenantRows(O, T) ==
    {i \in DOMAIN payroll_settings :
        payroll_settings[i].teacher_id = O /\ payroll_settings[i].block = T}

\* C8: the baseline comes from the owner's tenant-specific row whenever one
\* exists, whatever the storage order; from the owner's global row only
\* when there is no tenant-specific row; and is 0 when there is neither.
C8_BaselinePrecedence ==
    ret.op = "_get_cwi"
    => LET specific == TenantRows(ret.teacher_id, ret.join_code)
           global == TenantRows(ret.teacher_id, NULL)
       IN  IF specific # {}
           THEN \E i \in specific : ret.value = calculate_cwi(payroll_settings[i])
           ELSE IF global # {}
           THEN \E i \in global : ret.value = calculate_cwi(payroll_settings[i])
           ELSE ret.value = 0

\* the enrolled subjects of tenant A whose balance satisfies P
EnrolledWith(P(_)) ==
    {s \in _get_enrolled_students("A") : P(get_checking_balance(s, 1, "A"))}

IsZero(b) == b = 0
IsPositive(b) == b > 0

\* C9: when the baseline is 0 or the expected balance of the window is 0,
\* the baseline-deviation metric is the share of enrolled subjects whose
\* balance is exactly 0 (100.0 when all N > 0 subjects are at 0).
C9_ZeroBaselineDeviation ==
    (/\ ret.op = "calculate_cwi_deviation_distribution"
     /\ ret.cwi * WindowDays(ret.window_start, ret.window_end) = 0
     /\ _get_enrolled_students("A") # {})
    => ret.value = RoundQuot(1000 * Cardinality(EnrolledWith(IsZero)),
                             Cardinality(_get_enrolled_students("A")))

\* C10: the solvency pass rate is 100 x (enrolled subjects with a balance
\* strictly above 0) / (enrolled subjects), for every baseline, 0 included.
C10_SolvencyPassRate ==
    (/\ ret.op = "calculate_budget_survival_pass_rate"
     /\ _get_enrolled_students("A") # {})
    => ret.value = RoundQuot(1000 * Cardinality(EnrolledWith(IsPositive)),
                             Cardinality(_get_enrolled_students("A")))

(***************************************************************************)
(* Tenant isolation.                                                       *)
(***************************************************************************)
\* C6: no change to the data of tenant B (a monetary event added or
\* voided, a presence event, an enrolment, B's pay configuration, B's
\* snapshots and alerts) changes any metric, count, trend or alert that a
\* snapshot computation for tenant A of the same owner produces.
C6_TenantIsolation ==
    ret.join_code = "B" => View(1, "A") = observed

\* the latest step changed tenant B, which has a voided monetary event of
\* a subject enrolled in tenant A and an active alert, while tenant A has a
\* snapshot, enrolled subjects and an active alert of its own
C6_Witness ==
    /\ ret.join_code = "B"
    /\ \E i \in DOMAIN transactions :
        /\ transactions[i].join_code = "B"
        /\ transactions[i].is_void
        /\ <<transactions[i].student_id, "A">> \in student_blocks
    /\ \E i \in DOMAIN alerts : alerts[i].join_code = "B" /\ alerts[i].is_active
    /\ \E i \in DOMAIN snapshots : snapshots[i].join_code = "A"
    /\ \E o \in observed : o.snapshot.total_students > 0 /\ o.alerts # {}

(***************************************************************************)
(* Participation.                                                          *)
(***************************************************************************)
\* the subjects with a non-void transaction of the tenant in the window
WithTransaction(join_code, window_start, window_end) ==
    {s \in Students : \E i \in DOMAIN transactions :
        /\ transactions[i].student_id = s
        /\ transactions[i].join_code = join_code
        /\ ~transactions[i].is_void
        /\ transactions[i].timestamp >= window_start
        /\ transactions[i].timestamp < window_end}

\* the presence events of the tenant in the window
TapsIn(join_code, window_start, window_end) ==
    {i \in DOMAIN tap_events :
        /\ tap_events[i].join_code = join_code
        /\ tap_events[i].timestamp >= window_start
        /\ tap_events[i].timestamp < window_end}

\* C11: a soft-deleted presence event does not make its subject active: in
\* a window where no subject has a non-void transaction and every presence
\* event is soft-deleted, no subject is counted as active.
C11_SoftDeletedExcluded ==
    (/\ ret.op = "calculate_participation_rate"
     /\ WithTransaction("A", ret.window_start, ret.window_end) = {}
     /\ \A i \in TapsIn("A", ret.window_start, ret.window_end) :
            tap_events[i].is_deleted)
    => ret.value.active = 0

\* the enrolled subjects with a non-void transaction or a presence event of
\* the tenant in the window
ActiveEnrolled(join_code, window_start, window_end) ==
    {s \in _get_enrolled_students(join_code) :
        \/ s \in WithTransaction(join_code, window_start, window_end)
        \/ \E i \in TapsIn(join_code, window_start, window_end) :
            tap_events[i].student_id = s}

\* C12: with N > 0 enrolled subjects of whom K have a non-void transaction
\* or a presence event of the tenant in [window_start, window_end), the
\* participation rate is K/N x 100 with active = K and total = N.
C12_ParticipationRate ==
    (/\ ret.op = "calculate_participation_rate"
     /\ _get_enrolled_students("A") # {})
    => LET N == Cardinality(_get_enrolled_students("A"))
           K == Cardinality(ActiveEnrolled("A", ret.window_start,
                                           ret.window_end))
       IN  ret.value = [rate |-> Frac(100 * K, N), active |-> K, total |-> N]

(***************************************************************************)
(* Money velocity.                                                         *)
(***************************************************************************)
\* the whole days of the window, at least 1
FlooredDays(window_start, window_end) ==
    IF WindowDays(window_start, window_end) >= 1
    THEN WindowDays(window_start, window_end)
    ELSE 1

\* the number of non-void transactions of the tenant in the window
NonVoidCount(join_code, window_start, window_end) ==
    Cardinality({i \in DOMAIN transactions :
        /\ transactions[i].join_code = join_code
        /\ ~transactions[i].is_void
        /\ window_start <= transactions[i].timestamp
        /\ transactions[i].timestamp < window_end})

\* C13: money velocity is (non-void transactions of the tenant in the
\* window) / (enrolled x D), in hundredths, with D the whole days of the
\* window and at least 1, for every window; it is never negative.
C13_MoneyVelocity ==
    (/\ ret.op = "calculate_money_velocity"
     /\ _get_enrolled_students("A") # {})
    => /\ ret.value =
            RoundQuot(100 * NonVoidCount("A", ret.window_start, ret.window_end),
                      Cardinality(_get_enrolled_students("A"))
                        * FlooredDays(ret.window_start, ret.window_end))
       /\ ret.value >= 0

\* a window shorter than a day with a transaction in it: the divisor is the
\* floor of 1 day
C13_Witness ==
    /\ ret.op = "calculate_money_velocity"
    /\ WindowDays(ret.window_start, ret.window_end) = 0
    /\ ret.value > 0
    /\ \E i \in DOMAIN transactions : transactions[i].is_void

(***************************************************************************)
(* Baseline deviation with a positive baseline.                            *)
(***************************************************************************)
\* |balance - expected| <= 0.20 x expected, with expected = cwi x days / 7
InBand(balance, cwi, days) ==
    Abs(7 * balance - cwi * days) * 100 <= 20 * cwi * days

\* C14: with a baseline B > 0 and a window of D days the baseline-deviation
\* metric is 100 x (enrolled subjects with |balance - B x D/7| <= 0.20 x
\* B x D/7) / (enrolled), to one decimal; a subject exactly 20% away is
\* within the band.
C14_DeviationInBand ==
    (/\ ret.op = "calculate_cwi_deviation_distribution"
     /\ ret.cwi > 0
     /\ WindowDays(ret.window_start, ret.window_end) > 0
     /\ _get_enrolled_students("A") # {})
    => ret.value =
        RoundQuot(1000 * Cardinality({s \in _get_enrolled_students("A") :
                        InBand(get_checking_balance(s, 1, "A"), ret.cwi,
                               WindowDays(ret.window_start, ret.window_end))}),
                  Cardinality(_get_enrolled_students("A")))

(***************************************************************************)
(* Trend comparator.                                                       *)
(***************************************************************************)
\* the sign of (c - p) / p for fractions c and p # 0
ChangeSign(c, p) ==
    LET x == (c.n * p.d - p.n * c.d) * c.d * p.n
    IN  IF x > 0 THEN 1 ELSE IF x < 0 THEN -1 ELSE 0

\* |(c - p) / p| < t / 100
ChangeUnder(c, p, t) ==
    Abs(c.n * p.d - p.n * c.d) * 100 < t * Abs(c.d * p.n)

\* C15: calculate_trend is 'stable' when previous is absent, when it is 0
\* and when |(current - previous) / previous| is strictly below the
\* threshold; otherwise 'improving' for a positive change and 'worsening'
\* for a negative one; a change of exactly the threshold is not stable.
C15_TrendRule ==
    ret.op = "calculate_trend"
    => ret.value =
        IF ret.previous_value = <<>> THEN "stable"
        ELSE IF ret.previous_value[1].n = 0 THEN "stable"
        ELSE IF ChangeUnder(ret.current_value, ret.previous_value[1],
                            ret.threshold_pct) THEN "stable"
        ELSE IF ChangeSign(ret.current_value, ret.previous_value[1]) > 0
             THEN "improving"
        ELSE "worsening"

(***************************************************************************)
(* A tenant without enrolled students.                                     *)
(***************************************************************************)
NoneEnrolled(join_code) == \A sb \in student_blocks : sb[2] # join_code

\* the zero-state of the metrics of a snapshot row
ZeroStateRow(row) ==
    /\ row.participation_rate = Frac(0, 1)
    /\ row.active_students = 0
    /\ row.total_students = 0
    /\ row.money_velocity = 0
    /\ row.cwi_deviation_within_20pct = 0
    /\ row.budget_survival_pass_rate = 0
    /\ row.avg_student_balance = Frac(0, 1)

\* C16: for a tenant with zero enrolled students, whatever the ledger, the
\* baseline and the window, participation is 0.0 with counts 0 and 0,
\* velocity, baseline deviation and solvency are 0.0, and create_snapshot
\* completes: it returns the row it stored, which has these values and
\* average balance 0.0.
C16_ZeroEnrolledZeroState ==
    NoneEnrolled("A") =>
        /\ ret.op = "calculate_participation_rate"
            => ret.value = [rate |-> Frac(0, 1), active |-> 0, total |-> 0]
        /\ ret.op \in {"calculate_money_velocity",
                       "calculate_cwi_deviation_distribution",
                       "calculate_budget_survival_pass_rate"}
            => ret.value = 0
        /\ \A i \in DOMAIN snapshots :
            snapshots[i].join_code = "A" => ZeroStateRow(snapshots[i])
        /\ ret.op = "create_snapshot"
            => /\ ret.id = Len(snapshots)
               /\ snapshots[ret.id].join_code = "A"
               /\ snapshots[ret.id].window_start = ret.window_start

\* a snapshot was stored for the tenant without students while its join
\* code has a transaction, a presence event and a payroll row, and
\* students are enrolled elsewhere
C16_Witness ==
    /\ NoneEnrolled("A")
    /\ student_blocks # {}
    /\ ret.op = "create_snapshot"
    /\ Len(snapshots) > 0
    /\ Len(tap_events) > 0
    /\ payroll_settings # <<>>
    /\ \E i \in DOMAIN transactions :
        transactions[i].join_code = "A" /\ transactions[i].amount > 0

(***************************************************************************)
(* Acknowledging and resolving again.                                      *)
(***************************************************************************)
\* the call found the alert of its session with the timestamp it sets
\* already set
Repeated ==
    /\ ret.op \in {"acknowledge", "resolve"}
    /\ ret.id \in DOMAIN ret.before
    /\ ret.before[ret.id].join_code = ret.join_code
    /\ IF ret.op = "acknowledge"
       THEN ret.before[ret.id].acknowledged_at # NoTime
       ELSE ret.before[ret.id].resolved_at # NoTime

\* C17: acknowledging an alert that has an acknowledge timestamp, and
\* resolving an alert that has a resolve timestamp, completes and changes
\* no field of any alert: the first timestamp is kept, so applying the
\* operation twice leaves the state of applying it once.
C17_AcknowledgeResolveIdempotent ==
    Repeated => alerts = ret.before

\* an alert acknowledged at one instant was acknowledged again at a later
\* one, and likewise a resolved one
C17_Witness ==
    /\ Repeated
    /\ ret.op = "acknowledge"
    /\ ret.before[ret.id].acknowledged_at < now
    /\ \E i \in DOMAIN alerts :
        alerts[i].resolved_at # NoTime /\ alerts[i].resolved_at < now

(***************************************************************************)
(* Stored complete snapshots.                                              *)
(***************************************************************************)
\* C18: a stored snapshot row with is_complete true is the same row after
\* every step of get_or_create_snapshot, create_snapshot, acknowledge and
\* resolve: no field of it changes and it is not removed.
C18_CompleteSnapshotImmutable ==
    [][\A i \in DOMAIN snapshots :
        snapshots[i].is_complete
            => i \in DOMAIN snapshots' /\ snapshots'[i] = snapshots[i]]_vars

\* after a complete row was stored, its key was computed again at a later
\* instant and an alert was acknowledged and resolved
C18_Witness ==
    /\ Len(snapshots) >= 2
    /\ snapshots[1].is_complete
    /\ SameKey(snapshots[1], snapshots[2])
    /\ snapshots[2].computed_at > snapshots[1].computed_at
    /\ \E i \in DOMAIN alerts :
        /\ alerts[i].acknowledged_at >= snapshots[2].computed_at
        /\ alerts[i].resolved_at >= snapshots[2].computed_at

(***************************************************************************)
(* Alert rules.                                                            *)
(***************************************************************************)
\* the kinds among a list of proposals
ProposedTypes(proposals) ==
    {proposals[i].alert_type : i \in DOMAIN proposals}

LastDays(days) == <<ret.now - days * TicksPerDay, ret.now>>

\* C20: the window resolver returns a window for every input and changes
\* no stored state: 'week' and 'pay_cycle' give now - 7d..now, 'month' and
\* 'rent_cycle' give now - 30d..now, 'custom' with both bounds gives those
\* bounds, and every other input (an unknown name, 'custom' with a missing
\* start or end) gives now - 7d..now.
C20_WindowResolver ==
    [][ret'.op = "get_time_window" /\ ret' # ret =>
        /\ UNCHANGED <<ledger, snapshots, alerts, now>>
        /\ ret'.now = now
        /\ ret'.value =
            CASE ret'.window_type \in {"week", "pay_cycle"} -> LastDays(7)'
              [] ret'.window_type \in {"month", "rent_cycle"} -> LastDays(30)'
              [] /\ ret'.window_type = "custom"
                 /\ ret'.custom_start # <<>>
                 /\ ret'.custom_end # <<>>
                    -> <<ret'.custom_start[1], ret'.custom_end[1]>>
              [] OTHER -> LastDays(7)']_vars

\* 'custom' without an end was resolved to the default week, at a time
\* other than the start of the clock
C20_Witness ==
    /\ ret.op = "get_time_window"
    /\ ret.window_type = "custom"
    /\ ret.custom_start # <<>>
    /\ ret.custom_end = <<>>
    /\ ret.now > 0
    /\ ret.value = <<ret.now - 7 * TicksPerDay, ret.now>>
    /\ Len(alerts) > 0

(***************************************************************************)
(* Voiding a transaction.                                                  *)
(***************************************************************************)
\* C21: a void flips the void flag of one stored transaction and appends
\* one offsetting row: amount, student, account type and timestamp of the
\* voided row and every other row stay as they were, the two amounts sum to
\* zero, and every balance afterwards is the sum of the non-void rows that
\* remain.
C21_VoidEffect ==
    [][ret'.op = "void_transaction" /\ transactions' # transactions =>
        \E i \in DOMAIN transactions :
            /\ ~transactions[i].is_void
            /\ Len(transactions') = Len(transactions) + 1
            /\ \A j \in DOMAIN transactions :
                transactions'[j] =
                    IF j = i THEN [transactions[i] EXCEPT !.is_void = TRUE]
                    ELSE transactions[j]
            /\ transactions'[Len(transactions')].amount
                    + transactions[i].amount = 0
            /\ transactions'[Len(transactions')].student_id
                    = transactions[i].student_id
            /\ transactions'[Len(transactions')].account_type
                    = transactions[i].account_type
            /\ \A s \in Students, jc \in JoinCodes, a \in AccountTypes :
                Balance(s, 1, jc, a)' =
                    ContributionsUpTo(Len(transactions), s, jc, 1, a)
                        - Contribution(i, s, jc, 1, a)]_vars

\* a transaction of 5.00 was voided: it and its offset of -5.00 are stored
\* and void, and the student's balance of the tenant is back at zero
C21_Witness ==
    /\ ret.op = "void_transaction"
    /\ \E i, j \in DOMAIN transactions :
        /\ i < j
        /\ transactions[i].is_void /\ transactions[j].is_void
        /\ transactions[i].amount = 5000 /\ transactions[j].amount = -5000
        /\ transactions[i].join_code = "B"
        /\ Balance(transactions[i].student_id, 1, "B", "checking") = 0

(***************************************************************************)
(* Failure and retry.                                                      *)
(***************************************************************************)
\* C22: when the request has returned, after any number of failed attempts,
\* the tables are those of one attempt without failure: one snapshot row of
\* the key, and an active alert for every kind that row proposes.
C22_RetryIdempotent ==
    pc[1] = "done" =>
        /\ Len(snapshots) = 1
        /\ \A k \in ProposedTypes(generate_alerts(snapshots[1], snapshots[1])) :
            ActiveAlerts("A", k) # {}

\* C23: a storage failure inside get_or_create_snapshot reaches the caller
\* as a failure, which is not the outcome of a tenant with an empty ledger:
\* a request ends either failed, with no snapshot returned, or done, with a
\* stored row returned, and every stored row carries the counts of the
\* ledger and the roster, never the zeros of missing data.
C23_FailureReported ==
    /\ pc[1] = "failed" => DOMAIN loc[1] = {"raised"}
    /\ pc[1] = "done" => loc[1].id \in DOMAIN snapshots
    /\ \A i \in DOMAIN snapshots :
        /\ snapshots[i].total_students
                = Cardinality({sb \in student_blocks : sb[2] = "A"})
        /\ snapshots[i].total_transactions
                = Cardinality({j \in DOMAIN transactions :
                        /\ transactions[j].join_code = "A"
                        /\ ~transactions[j].is_void
                        /\ transactions[j].timestamp >= Week1[1]
                        /\ transactions[j].timestamp < Week1[2]})

\* the request failed after its snapshot was committed, over a ledger that
\* is not empty
C23_Witness ==
    /\ pc[1] = "failed"
    /\ Len(snapshots) = 1
    /\ Len(transactions) > 0
    /\ alerts = <<>>

(***************************************************************************)
(* The previous snapshot of a trend comparison.  Rows are stored in the    *)
(* order of their creation, so the rows a computation could see are those  *)
(* before its own.                                                         *)
(***************************************************************************)
\* the rows before row i with its tenant and window type, complete, and
\* starting strictly earlier
EarlierComplete(i) ==
    {j \in 1 .. (i - 1) :
        /\ snapshots[j].join_code = snapshots[i].join_code
        /\ snapshots[j].window_type = snapshots[i].window_type
        /\ snapshots[j].is_complete
        /\ snapshots[j].window_start < snapshots[i].window_start}

\* the three trends of row i are those of the comparison with prev
TrendsFrom(i, prev) ==
    LET t == compute_trends(snapshots[i], prev)
    IN  /\ snapshots[i].velocity_trend = t.velocity_trend
        /\ snapshots[i].participation_trend = t.participation_trend
        /\ snapshots[i].balance_trend = t.balance_trend

C25_CompleteIffWindowEnded ==
    [][ret'.op = "get_or_create_snapshot" /\ now' = now =>
        LET have == CompleteRows(ret'.join_code, ret'.window_type,
                                 ret'.window_start, ret'.window_end)
            ended == ret'.window_end <= now
        IN  /\ ret'.id \in DOMAIN snapshots'
            /\ SameKey(snapshots'[ret'.id], ret')
            /\ snapshots' # snapshots =>
                /\ snapshots' = Append(snapshots, snapshots'[ret'.id])
                /\ snapshots'[ret'.id].is_complete <=> ended
            /\ have = {} => snapshots' # snapshots
            /\ ended => snapshots'[ret'.id].is_complete]_vars

\* the key was requested before the end of its window and again after it:
\* an incomplete row and then a complete one were stored
C25_Witness ==
    /\ ret.op = "get_or_create_snapshot"
    /\ ret.id > 1
    /\ snapshots[ret.id].is_complete
    /\ snapshots[ret.id].computed_at = Week1[2]
    /\ \A j \in 1 .. (ret.id - 1) :
        /\ SameKey(snapshots[j], ret)
        /\ ~snapshots[j].is_complete
        /\ snapshots[j].computed_at < Week1[2]

(***************************************************************************)
(* Stored alerts during a snapshot computation.                            *)
(***************************************************************************)
\* C26: a snapshot computation leaves every stored alert row as it is: an
\* active alert of a proposed kind keeps its severity, messages and
\* timestamps, and an active alert whose kind is no longer proposed stays
\* active and unresolved.
C26_AlertsKeptBySnapshot ==
    [][snapshots' # snapshots =>
        \A i \in DOMAIN alerts :
            i \in DOMAIN alerts' /\ alerts'[i] = alerts[i]]_vars

\* tenant B has active alerts for low participation and low solvency from
\* an earlier snapshot, and its latest snapshot shows full participation
\* and solvency
C26_Witness ==
    /\ ret.op = "create_snapshot"
    /\ ret.join_code = "B"
    /\ snapshots[ret.id].participation_rate = Frac(100, 1)
    /\ snapshots[ret.id].budget_survival_pass_rate = 1000
    /\ \E i \in ActiveAlerts("B", "participation_low") :
        alerts[i].resolved_at = NoTime
    /\ \E i \in ActiveAlerts("B", "budget_survival_low") :
        alerts[i].resolved_at = NoTime

(***************************************************************************)
(* Alert lifecycle.                                                        *)
(***************************************************************************)
\* C27: in every step, an alert row that is new is active with no
\* acknowledge and no resolve timestamp; at most one stored alert changes,
\* and it changes either by getting its acknowledge timestamp and nothing
\* else, or by getting its resolve timestamp and becoming inactive and
\* nothing else; an alert with a resolve timestamp is never active again.
C27_AlertLifecycle ==
    [][LET changed == {i \in DOMAIN alerts :
                        i \notin DOMAIN alerts' \/ alerts'[i] # alerts[i]}
       IN  /\ \A i \in DOMAIN alerts' \ DOMAIN alerts :
                /\ alerts'[i].is_active
                /\ alerts'[i].acknowledged_at = NoTime
                /\ alerts'[i].resolved_at = NoTime
           /\ Cardinality(changed) <= 1
           /\ changed # {} => Len(alerts') = Len(alerts)
           /\ \A i \in changed :
                \/ /\ alerts[i].acknowledged_at = NoTime
                   /\ alerts'[i] = [alerts[i] EXCEPT !.acknowledged_at = now]
                \/ /\ alerts[i].resolved_at = NoTime
                   /\ alerts'[i] = [alerts[i] EXCEPT !.resolved_at = now,
                                                     !.is_active = FALSE]
           /\ \A i \in DOMAIN alerts :
                alerts[i].resolved_at # NoTime => ~alerts'[i].is_active]_vars

\* an alert was acknowledged and later resolved, and a new alert of its
\* kind was stored after that
C27_Witness ==
    \E i, j \in DOMAIN alerts :
        /\ i < j
        /\ alerts[i].alert_type = alerts[j].alert_type
        /\ alerts[i].join_code = alerts[j].join_code
        /\ alerts[i].acknowledged_at # NoTime
        /\ alerts[i].resolved_at > alerts[i].acknowledged_at
        /\ ~alerts[i].is_active
        /\ alerts[j].is_active
        /\ alerts[j].triggered_at >= alerts[i].resolved_at

\* C28: a step that computes and stores a snapshot leaves exactly one
\* active alert for every kind its metrics propose: the one that was active,
\* or, when none was active (the earlier one having been resolved), a new
\* row, while the resolved rows stay inactive; a request answered from the
\* stored snapshots creates no alert.
C28_AlertRaisedAgain ==
    [][/\ snapshots' # snapshots =>
            LET row == snapshots'[Len(snapshots')]
                active(k) == {i \in DOMAIN alerts' :
                                /\ alerts'[i].join_code = row.join_code
                                /\ alerts'[i].alert_type = k
                                /\ alerts'[i].is_active}
                was(k) == {i \in DOMAIN alerts :
                                /\ alerts[i].join_code = row.join_code
                                /\ alerts[i].alert_type = k
                                /\ alerts[i].is_active}
            IN  \A k \in ProposedTypes(generate_alerts(row, row)) :
                    /\ Cardinality(active(k)) = 1
                    /\ was(k) = {} => active(k) \cap DOMAIN alerts = {}
                    /\ \A i \in DOMAIN alerts :
                        ~alerts[i].is_active => ~alerts'[i].is_active
       /\ (ret'.op = "get_or_create_snapshot" /\ snapshots' = snapshots)
            => Len(alerts') = Len(alerts)]_vars

\* the low-participation alert of tenant A was resolved and the next
\* computation stored a new one: one active row and one resolved row
C28_Witness ==
    /\ ret.op \in {"create_snapshot", "get_or_create_snapshot"}
    /\ ret.join_code = "A"
    /\ Len(snapshots) >= 2
    /\ Cardinality(ActiveAlerts("A", "participation_low")) = 1
    /\ \E i \in DOMAIN alerts :
        /\ alerts[i].join_code = "A"
        /\ alerts[i].alert_type = "participation_low"
        /\ alerts[i].resolved_at # NoTime
        /\ ~alerts[i].is_active
        /\ \A j \in ActiveAlerts("A", "participation_low") : i < j

(***************************************************************************)
(* Tenant scoping of the metrics and of the balances.                      *)
(***************************************************************************)
\* the transactions the balance computation counts for tenant T of owner O:
\* not void, and tagged T or tagged with no tenant and owner O
BalanceScoped(T, O) ==
    {i \in DOMAIN transactions :
        /\ ~transactions[i].is_void
        /\ \/ transactions[i].join_code = T
           \/ /\ transactions[i].join_code = NULL
              /\ transactions[i].teacher_id = O}

\* C29: the participation calculator, the velocity calculator and the
\* transaction count of a snapshot count the transactions of the window
\* that the balance computation counts for the tenant, those with no tenant
\* key and the owner's id included.
C29_SameScoping ==
    (ret.op = "create_snapshot" /\ ret.join_code = "A") =>
        LET row == snapshots[ret.id]
            counted == {i \in BalanceScoped("A", row.teacher_id) :
                            /\ transactions[i].timestamp >= row.window_start
                            /\ transactions[i].timestamp < row.window_end}
        IN  /\ row.total_transactions = Cardinality(counted)
            /\ row.money_velocity
                = RoundQuot(100 * Cardinality(counted),
                            row.total_students
                                * FlooredDays(row.window_start, row.window_end))
            /\ row.active_students
                = Cardinality(
                    {transactions[i].student_id : i \in counted}
                    \cup
                    {tap_events[i].student_id :
                        i \in TapsIn("A", row.window_start, row.window_end)})

(***************************************************************************)
(* Ranges of the participation figures of the stored snapshots.            *)
(***************************************************************************)
\* C30: in every stored snapshot 0 <= active count <= enrolled count and
\* 0 <= participation rate <= 100, whatever the ledger holds, events of the
\* tenant whose subject is not enrolled in the tenant included.
C30_ParticipationWithinRange ==
    \A i \in DOMAIN snapshots :
        /\ 0 <= snapshots[i].active_students
        /\ snapshots[i].active_students <= snapshots[i].total_students
        /\ 0 <= snapshots[i].participation_rate.n
        /\ snapshots[i].participation_rate.n
            <= 100 * snapshots[i].participation_rate.d

====
